---- MODULE Spec2Model ----
(***************************************************************************)
(* Model of the STDF two-pass aggregation engine (crate `stupidf`).        *)
(*                                                                         *)
(*   pass 1  FullTestInformation::from_fname   src/src/test_information.rs *)
(*   layout  TestData::new                     src/src/data.rs             *)
(*   pass 2  TestData::from_fname and the row operations                   *)
(*           new_part / add_data_ptr / add_data_ftr / add_data_mpr /       *)
(*           finish_part / new_wafer / close_wafer /                       *)
(*           normalize_multipin_results        src/src/data.rs             *)
(*                                                                         *)
(* f32 values are modelled as strings ("1.5", "NaN"); the code never       *)
(* compares or computes with them, it only stores and copies them.         *)
(* A method of TestData is an operator from the struct's value (`self`)    *)
(* and a record to the outcome: the new value and the panic message, if    *)
(* the method panicked.  A panicked run takes no further step.             *)
(***************************************************************************)
EXTENDS Integers, Sequences, FiniteSets, TLC

(***************************************************************************)
(* Bounds of the model.                                                    *)
(***************************************************************************)
\* longest pass-1 stream (TSR / PTR records) the initial states are built from
MaxPass1 == 2
\* longest pass-2 stream
MaxRecords == 5
\* longest stream of the specification of pass 1 and merge()
MaxStream == 3
\* longest file of the specification of STDF::from_fname (the scenario file
\* apart)
MaxFile == 4
\* longest byte source of the specification of the record reader
MaxSource == 9
\* most records in a source of the specification of the decoders
MaxChunks == 3
\* most parts of a stream of the specification of normalize_multipin_results
MaxParts == 3

\* test numbers occurring in the streams
Tests == {1, 2}
\* head / site numbers of part and result records
Heads == {1}
Sites == {1, 2}
\* f32 results carried by PTR records
Results == {"1.5", "2.5"}
\* wafer ids carried by WIR records
WaferIds == {"W1"}

NaN == "NaN"

\* A u32 is the pair <<high, low>> of its 16-bit halves, so that the model
\* keeps its width: the value is high * 2^16 + low.
Half == 65536

U32(n) == <<n \div Half, n % Half>>

\* u32 addition, wrapping at 2^32
U32WrappingAdd(a, b) ==
    <<(a[1] + b[1] + ((a[2] + b[2]) \div Half)) % Half, (a[2] + b[2]) % Half>>

\* the sum of a and b does not fit a u32
U32AddOverflows(a, b) == a[1] + b[1] + ((a[2] + b[2]) \div Half) >= Half

(***************************************************************************)
(* Decoded records (src/src/records/records.rs).  Only the fields the two  *)
(* passes read are kept; `kind` is the variant tag of enum Record.         *)
(***************************************************************************)
TSRs ==
    [kind : {"TSR"}, head_num : {1}, site_num : {1},
     test_typ : {"P", "F", "M", "S"}, test_num : Tests, exec_cnt : {U32(1)},
     test_nam : {"nam"}, seq_name : {"seq"}, test_lbl : {"lbl"},
     test_tim : {"0.5"}]

\* PTR records as pass 1 sees them (site 1 only); `result` is not read there
PTRs1 ==
    [kind : {"PTR"}, test_num : Tests, head_num : {1}, site_num : {1},
     test_flg : {0}, result : {"1.5"}, test_txt : {"txt"},
     res_scal : {3}, llm_scal : {1}, hlm_scal : {2},
     lo_limit : {"0.1"}, hi_limit : {"0.9"}, units : {"V"},
     lo_spec : {"0.2"}, hi_spec : {"0.8"}]

PTRs ==
    [kind : {"PTR"}, test_num : Tests, head_num : Heads, site_num : Sites,
     test_flg : {0}, result : Results, test_txt : {"txt"},
     res_scal : {3}, llm_scal : {1}, hlm_scal : {2},
     lo_limit : {"0.1"}, hi_limit : {"0.9"}, units : {"V"},
     lo_spec : {"0.2"}, hi_spec : {"0.8"}]

\* test_flg: 0x00, 0x40 (bit 6), 0x80 (bit 7), 0xC1 (bits 7, 6, 0)
FTRs ==
    [kind : {"FTR"}, test_num : Tests, head_num : Heads, site_num : Sites,
     test_flg : {0, 64, 128, 193}]

\* (rtn_rslt, rtn_indx) pairs of the multi-pin records
MPRPayloads ==
    { <<  <<"1.5">>,        <<7>>    >>,
      <<  <<"2.5", "1.5">>, <<8, 9>> >> }

MPRs ==
    { [kind |-> "MPR", test_num |-> t, head_num |-> h, site_num |-> s,
       rtn_rslt |-> p[1], rtn_indx |-> p[2]] :
         t \in Tests, h \in Heads, s \in Sites, p \in MPRPayloads }

PIRs == [kind : {"PIR"}, head_num : Heads, site_num : Sites]

\* the part-end payloads: (part_id, part_txt, x, y, soft_bin, hard_bin)
PRRPayloads ==
    { <<"P1", "t1", -7, 6, 2, 5>> }

PRRs ==
    { [kind |-> "PRR", head_num |-> h, site_num |-> s,
       part_id |-> p[1], part_txt |-> p[2], x_coord |-> p[3], y_coord |-> p[4],
       soft_bin |-> p[5], hard_bin |-> p[6]] :
         h \in Heads, s \in Sites, p \in PRRPayloads }

WIRs == [kind : {"WIR"}, head_num : {1}, site_grp : {255}, start_t : {0},
         wafer_id : WaferIds]

WRRs == [kind : {"WRR"}, head_num : {1}, site_grp : {255}, wafer_id : {"W1"}]

\* The records of the specification of pass 1: three tests on two sites.
StreamTests == {1, 2, 3}

\* synopsis records of head 1; those of test 1 with an exec_cnt of 2^31, so
\* that the sum of two counts may overflow a u32; and the all-sites synopsis
\* of head 255
StreamTSRs ==
    [kind : {"TSR"}, head_num : {1}, site_num : Sites,
     test_typ : {"P", "F", "M", "S"}, test_num : StreamTests,
     exec_cnt : {U32(1)},
     test_nam : {"nam"}, seq_name : {"seq"}, test_lbl : {"lbl"},
     test_tim : {"0.5"}]
      \cup
    [kind : {"TSR"}, head_num : {1}, site_num : Sites,
     test_typ : {"P"}, test_num : {1}, exec_cnt : {<<32768, 0>>},
     test_nam : {"nam"}, seq_name : {"seq"}, test_lbl : {"lbl"},
     test_tim : {"0.5"}]
      \cup
    [kind : {"TSR"}, head_num : {255}, site_num : {255},
     test_typ : {"P"}, test_num : {1}, exec_cnt : {U32(1)},
     test_nam : {"all"}, seq_name : {"seq"}, test_lbl : {"lbl"},
     test_tim : {"0.5"}]

StreamPTRs ==
    [kind : {"PTR"}, test_num : StreamTests, head_num : {1}, site_num : Sites,
     test_flg : {0}, result : {"1.5"}, test_txt : {"txt"},
     res_scal : {3}, llm_scal : {1}, hlm_scal : {2},
     lo_limit : {"0.1"}, hi_limit : {"0.9"}, units : {"V"},
     lo_spec : {"0.2"}, hi_spec : {"0.8"}]

\* records pass 1 reads and does nothing with
StreamOthers ==
    { [kind |-> "PIR", test_num |-> 0, head_num |-> 1, site_num |-> 1],
      [kind |-> "FTR", test_num |-> 1, head_num |-> 1, site_num |-> 1] }

\* what the history of pass 1 keeps of a record it read
Sighting(rec) ==
    [kind |-> rec.kind, test_num |-> rec.test_num, site_num |-> rec.site_num,
     head_num |-> rec.head_num,
     test_typ |-> IF rec.kind = "TSR" THEN rec.test_typ ELSE ""]

(***************************************************************************)
(* Pass 1: the per-site test metadata (src/src/test_information.rs).       *)
(***************************************************************************)
\* the match on tsr.test_typ
TestTypeOfChar(c) ==
    CASE c = "P" -> "P"
      [] c = "F" -> "F"
      [] c = "M" -> "M"
      [] c = "S" -> "S"
      [] OTHER   -> "Unknown"

\* mutant: the entry made from a PTR holds the site as head and the head as
\* site
TestInformation_new_from_ptr_SwapsHeadAndSite(ptr) ==
    [test_num        |-> ptr.test_num,
     head_num        |-> ptr.site_num,
     site_num        |-> ptr.head_num,
     test_type       |-> "Unknown",
     execution_count |-> U32(0),
     test_name       |-> "",
     sequence_name   |-> "",
     test_label      |-> "",
     test_time       |-> NaN,
     test_text       |-> ptr.test_txt,
     llm_scal        |-> ptr.llm_scal,
     hlm_scal        |-> ptr.hlm_scal,
     res_scal        |-> ptr.res_scal,
     lo_spec         |-> ptr.lo_spec,
     hi_spec         |-> ptr.hi_spec,
     low_limit       |-> ptr.lo_limit,
     high_limit      |-> ptr.hi_limit,
     units           |-> ptr.units,
     complete        |-> "PTR"]

TestInformation_new_from_ptr(ptr) ==
    [test_num        |-> ptr.test_num,
     head_num        |-> ptr.head_num,
     site_num        |-> ptr.site_num,
     test_type       |-> "Unknown",
     execution_count |-> U32(0),
     test_name       |-> "",
     sequence_name   |-> "",
     test_label      |-> "",
     test_time       |-> NaN,
     test_text       |-> ptr.test_txt,
     llm_scal        |-> ptr.llm_scal,
     hlm_scal        |-> ptr.hlm_scal,
     res_scal        |-> ptr.res_scal,
     lo_spec         |-> ptr.lo_spec,
     hi_spec         |-> ptr.hi_spec,
     low_limit       |-> ptr.lo_limit,
     high_limit      |-> ptr.hi_limit,
     units           |-> ptr.units,
     complete        |-> "PTR"]

TestInformation_new_from_tsr(tsr) ==
    [test_num        |-> tsr.test_num,
     head_num        |-> tsr.head_num,
     site_num        |-> tsr.site_num,
     test_type       |-> TestTypeOfChar(tsr.test_typ),
     execution_count |-> tsr.exec_cnt,
     test_name       |-> tsr.test_nam,
     sequence_name   |-> tsr.seq_name,
     test_label      |-> tsr.test_lbl,
     test_time       |-> tsr.test_tim,
     test_text       |-> "",
     llm_scal        |-> 0,
     hlm_scal        |-> 0,
     res_scal        |-> 0,
     lo_spec         |-> NaN,
     hi_spec         |-> NaN,
     low_limit       |-> NaN,
     high_limit      |-> NaN,
     units           |-> "",
     complete        |-> "TSR"]

\* the guard of the panic at the head of add_from_tsr / add_from_ptr
KeyMismatch(self, rec) ==
    \/ self.head_num # rec.head_num
    \/ self.site_num # rec.site_num
    \/ self.test_num # rec.test_num

\* mutant: a synopsis seen again adds its count to the entry
TestInformation_add_from_tsr_Accumulates(self, tsr) ==
    IF self.complete = "PTR"
    THEN [self EXCEPT !.test_type       = TestTypeOfChar(tsr.test_typ),
                      !.execution_count = tsr.exec_cnt,
                      !.test_name       = tsr.test_nam,
                      !.sequence_name   = tsr.seq_name,
                      !.test_label      = tsr.test_lbl,
                      !.test_time       = tsr.test_tim,
                      !.complete        = "Complete"]
    ELSE [self EXCEPT
            !.execution_count = U32WrappingAdd(@, tsr.exec_cnt)]

\* mutant: a synopsis overwrites the synopsis fields whatever the state is
TestInformation_add_from_tsr_Overwrites(self, tsr) ==
    [self EXCEPT !.test_type       = TestTypeOfChar(tsr.test_typ),
                 !.execution_count = tsr.exec_cnt,
                 !.test_name       = tsr.test_nam,
                 !.sequence_name   = tsr.seq_name,
                 !.test_label      = tsr.test_lbl,
                 !.test_time       = tsr.test_tim,
                 !.complete        = IF @ = "PTR" THEN "Complete" ELSE @]

TestInformation_add_from_tsr(self, tsr) ==
    IF self.complete = "PTR"
    THEN [self EXCEPT !.test_type       = TestTypeOfChar(tsr.test_typ),
                      !.execution_count = tsr.exec_cnt,
                      !.test_name       = tsr.test_nam,
                      !.sequence_name   = tsr.seq_name,
                      !.test_label      = tsr.test_lbl,
                      !.test_time       = tsr.test_tim,
                      !.complete        = "Complete"]
    ELSE self

\* mutant: a PTR completes the entry whatever its state is
TestInformation_add_from_ptr_AlwaysCompletes(self, ptr) ==
    [self EXCEPT !.llm_scal   = ptr.llm_scal,
                 !.hlm_scal   = ptr.hlm_scal,
                 !.res_scal   = ptr.res_scal,
                 !.lo_spec    = ptr.lo_spec,
                 !.hi_spec    = ptr.hi_spec,
                 !.test_text  = ptr.test_txt,
                 !.low_limit  = ptr.lo_limit,
                 !.high_limit = ptr.hi_limit,
                 !.units      = ptr.units,
                 !.complete   = "Complete"]

TestInformation_add_from_ptr(self, ptr) ==
    IF self.complete = "TSR"
    THEN [self EXCEPT !.llm_scal   = ptr.llm_scal,
                      !.hlm_scal   = ptr.hlm_scal,
                      !.res_scal   = ptr.res_scal,
                      !.lo_spec    = ptr.lo_spec,
                      !.hi_spec    = ptr.hi_spec,
                      !.test_text  = ptr.test_txt,
                      !.low_limit  = ptr.lo_limit,
                      !.high_limit = ptr.hi_limit,
                      !.units      = ptr.units,
                      !.complete   = "Complete"]
    ELSE self

\* test_infos is a map keyed by (test_num, site_num, head_num)
FullTestInformation_new == << >>

FullTestInformation_add_from_ptr(test_infos, ptr) ==
    LET key == <<ptr.test_num, ptr.site_num, ptr.head_num>> IN
    IF key \in DOMAIN test_infos
    THEN [test_infos EXCEPT ![key] = TestInformation_add_from_ptr(@, ptr)]
    ELSE test_infos @@ (key :> TestInformation_new_from_ptr(ptr))

\* mutant: no early return for head_num 255
FullTestInformation_add_from_tsr_NoSkip(test_infos, tsr) ==
    LET key == <<tsr.test_num, tsr.site_num, tsr.head_num>> IN
    IF key \in DOMAIN test_infos
    THEN [test_infos EXCEPT ![key] = TestInformation_add_from_tsr(@, tsr)]
    ELSE test_infos @@ (key :> TestInformation_new_from_tsr(tsr))

FullTestInformation_add_from_tsr(test_infos, tsr) ==
    IF tsr.head_num = 255
    THEN test_infos
    ELSE LET key == <<tsr.test_num, tsr.site_num, tsr.head_num>> IN
         IF key \in DOMAIN test_infos
         THEN [test_infos EXCEPT ![key] = TestInformation_add_from_tsr(@, tsr)]
         ELSE test_infos @@ (key :> TestInformation_new_from_tsr(tsr))

\* one iteration of the record loop of pass 1
FullTestInformation_from_fname_step(test_infos, rec) ==
    CASE rec.kind = "TSR" -> FullTestInformation_add_from_tsr(test_infos, rec)
      [] rec.kind = "PTR" -> FullTestInformation_add_from_ptr(test_infos, rec)
      [] OTHER            -> test_infos

RECURSIVE FullTestInformation_from_fname(_)
FullTestInformation_from_fname(stream) ==
    IF stream = << >>
    THEN FullTestInformation_new
    ELSE FullTestInformation_from_fname_step(
             FullTestInformation_from_fname(SubSeq(stream, 1, Len(stream) - 1)),
             stream[Len(stream)])

(***************************************************************************)
(* merge(): the per-test_num view.                                         *)
(***************************************************************************)
MergedTestInformation_new_from_test_information(ti) ==
    [test_num        |-> ti.test_num,
     test_type       |-> ti.test_type,
     execution_count |-> ti.execution_count,
     test_name       |-> ti.test_name,
     sequence_name   |-> ti.sequence_name,
     test_label      |-> ti.test_label,
     test_time       |-> ti.test_time,
     test_text       |-> ti.test_text,
     llm_scal        |-> ti.llm_scal,
     hlm_scal        |-> ti.hlm_scal,
     res_scal        |-> ti.res_scal,
     lo_spec         |-> ti.lo_spec,
     hi_spec         |-> ti.hi_spec,
     low_limit       |-> ti.low_limit,
     high_limit      |-> ti.high_limit,
     units           |-> ti.units]

\* mutant: the entry folded in also sets the category
MergedTestInformation_add_TakesType(self, ti) ==
    [self EXCEPT !.execution_count = U32WrappingAdd(@, ti.execution_count),
                 !.test_type = ti.test_type]

\* the guard of the panic at the head of MergedTestInformation::add
TestNumMismatch(self, ti) == self.test_num # ti.test_num

\* execution_count is a u32; += wraps where overflow is not checked
MergedTestInformation_add(self, ti) ==
    [self EXCEPT !.execution_count = U32WrappingAdd(@, ti.execution_count)]

FullMergedTestInformation_add_from_test_information(merged, ti) ==
    LET key == ti.test_num IN
    IF key \in DOMAIN merged
    THEN [merged EXCEPT ![key] = MergedTestInformation_add(@, ti)]
    ELSE merged @@ (key :> MergedTestInformation_new_from_test_information(ti))

\* the orders in which HashMap::values() may visit the entries
IterationOrders(test_infos) ==
    LET K == DOMAIN test_infos
        n == Cardinality(K)
    IN  { o \in [1 .. n -> K] : \A i, j \in 1 .. n : o[i] = o[j] => i = j }

\* merge(), visiting the entries in the given order
RECURSIVE FullTestInformation_merge(_, _)
FullTestInformation_merge(test_infos, order) ==
    IF order = << >>
    THEN << >>
    ELSE FullMergedTestInformation_add_from_test_information(
             FullTestInformation_merge(test_infos,
                                       SubSeq(order, 1, Len(order) - 1)),
             test_infos[order[Len(order)]])

(***************************************************************************)
(* TestData::new: the column layout (src/src/data.rs).                     *)
(***************************************************************************)
\* HashMap::insert
Insert(m, k, v) == [x \in (DOMAIN m) \cup {k} |-> IF x = k THEN v ELSE m[x]]

\* mutant: the keys in descending order
RECURSIVE SortedKeys_Descending(_)
SortedKeys_Descending(S) ==
    IF S = {}
    THEN << >>
    ELSE LET m == CHOOSE x \in S : \A y \in S : x >= y
         IN  <<m>> \o SortedKeys_Descending(S \ {m})

\* .sorted_by_key(|x| x.0): the keys in ascending order
RECURSIVE SortedKeys(_)
SortedKeys(S) ==
    IF S = {}
    THEN << >>
    ELSE LET m == CHOOSE x \in S : \A y \in S : x <= y
         IN  <<m>> \o SortedKeys(S \ {m})

\* the accumulators of the layout loop before its first iteration
LayoutEmpty ==
    [index_lookup        |-> << >>,
     reverse_lookup_para |-> << >>,
     reverse_lookup_func |-> << >>,
     reverse_lookup_mult |-> << >>,
     n_para |-> 0, n_func |-> 0, n_mult |-> 0]

\* mutant: the three partitions are numbered by one counter
LayoutStep_OneCounter(acc, tnum, mti) ==
    LET n == acc.n_para + acc.n_func + acc.n_mult IN
    CASE mti.test_type = "P" ->
           [acc EXCEPT !.index_lookup = Insert(@, tnum, n),
                       !.reverse_lookup_para = Insert(@, n, tnum),
                       !.n_para = @ + 1]
      [] mti.test_type = "F" ->
           [acc EXCEPT !.index_lookup = Insert(@, tnum, n),
                       !.reverse_lookup_func = Insert(@, n, tnum),
                       !.n_func = @ + 1]
      [] mti.test_type = "M" ->
           [acc EXCEPT !.index_lookup = Insert(@, tnum, n),
                       !.reverse_lookup_mult = Insert(@, n, tnum),
                       !.n_mult = @ + 1]
      [] OTHER -> acc

\* mutant: every test that is neither F nor M is laid out as parametric
LayoutStep_OtherIsParametric(acc, tnum, mti) ==
    CASE mti.test_type = "F" ->
           [acc EXCEPT !.index_lookup = Insert(@, tnum, acc.n_func),
                       !.reverse_lookup_func = Insert(@, acc.n_func, tnum),
                       !.n_func = @ + 1]
      [] mti.test_type = "M" ->
           [acc EXCEPT !.index_lookup = Insert(@, tnum, acc.n_mult),
                       !.reverse_lookup_mult = Insert(@, acc.n_mult, tnum),
                       !.n_mult = @ + 1]
      [] OTHER ->
           [acc EXCEPT !.index_lookup = Insert(@, tnum, acc.n_para),
                       !.reverse_lookup_para = Insert(@, acc.n_para, tnum),
                       !.n_para = @ + 1]

\* the body of the layout loop: the match on mti.test_type
LayoutStep(acc, tnum, mti) ==
    CASE mti.test_type = "P" ->
           [acc EXCEPT !.index_lookup = Insert(@, tnum, acc.n_para),
                       !.reverse_lookup_para = Insert(@, acc.n_para, tnum),
                       !.n_para = @ + 1]
      [] mti.test_type = "F" ->
           [acc EXCEPT !.index_lookup = Insert(@, tnum, acc.n_func),
                       !.reverse_lookup_func = Insert(@, acc.n_func, tnum),
                       !.n_func = @ + 1]
      [] mti.test_type = "M" ->
           [acc EXCEPT !.index_lookup = Insert(@, tnum, acc.n_mult),
                       !.reverse_lookup_mult = Insert(@, acc.n_mult, tnum),
                       !.n_mult = @ + 1]
      [] OTHER -> acc

RECURSIVE LayoutLoop(_, _)
LayoutLoop(merged, tnums) ==
    IF tnums = << >>
    THEN LayoutEmpty
    ELSE LET t == tnums[Len(tnums)]
         IN  LayoutStep(LayoutLoop(merged, SubSeq(tnums, 1, Len(tnums) - 1)),
                        t, merged[t])

\* Option<WIR>::None
None == [kind |-> "None"]

\* the TestData value built from the per-site table; `order` is the order in
\* which merge() visits the table
TestData_new(test_infos, order) ==
    LET merged == FullTestInformation_merge(test_infos, order)
        layout == LayoutLoop(merged, SortedKeys(DOMAIN merged))
    IN  [full_test_information |-> test_infos,
         test_information      |-> merged,
         index_lookup          |-> layout.index_lookup,
         data                  |-> << >>,
         mpr_index_lookup      |-> << >>,
         temp_rows             |-> << >>,
         n_para                |-> layout.n_para,
         n_func                |-> layout.n_func,
         n_mult                |-> layout.n_mult,
         reverse_lookup_para   |-> layout.reverse_lookup_para,
         reverse_lookup_func   |-> layout.reverse_lookup_func,
         reverse_lookup_mult   |-> layout.reverse_lookup_mult,
         wir                   |-> None]

(***************************************************************************)
(* Row::new.  A Vec is a sequence: index i of the code is position i + 1.  *)
(***************************************************************************)
\* mutant: the functional results are sized like the parametric ones
Row_new_FunctionalSizedAsParametric(pir, num_tests_parametric, num_tests_functional, num_tests_multi_pin, w) ==
    [part_id   |-> "",
     part_txt  |-> "",
     wafer_id  |-> IF w # None THEN w.wafer_id ELSE "",
     x_coord   |-> -5000,
     y_coord   |-> -5000,
     head_num  |-> pir.head_num,
     site_num  |-> pir.site_num,
     sbin      |-> 0,
     hbin      |-> 0,
     results_parametric |-> [i \in 1 .. num_tests_parametric |-> NaN],
     results_functional |-> [i \in 1 .. num_tests_parametric |-> FALSE],
     results_multi_pin  |-> [i \in 1 .. num_tests_multi_pin |-> << >>]]

Row_new(pir, num_tests_parametric, num_tests_functional, num_tests_multi_pin, w) ==
    [part_id   |-> "",
     part_txt  |-> "",
     wafer_id  |-> IF w # None THEN w.wafer_id ELSE "",
     x_coord   |-> -5000,
     y_coord   |-> -5000,
     head_num  |-> pir.head_num,
     site_num  |-> pir.site_num,
     sbin      |-> 0,
     hbin      |-> 0,
     results_parametric |-> [i \in 1 .. num_tests_parametric |-> NaN],
     results_functional |-> [i \in 1 .. num_tests_functional |-> FALSE],
     results_multi_pin  |-> [i \in 1 .. num_tests_multi_pin |-> << >>]]

(***************************************************************************)
(* The row operations of TestData (src/src/data.rs).                       *)
(***************************************************************************)
\* the method returned
Ok(self) == [panic |-> "none", self |-> self]
\* the method panicked with message msg, leaving self as it was at that point
Panicked(msg, self) == [panic |-> msg, self |-> self]

\* HashMap entry removal
Remove(m, k) == [x \in (DOMAIN m) \ {k} |-> m[x]]

IndexOutOfBounds == "index out of bounds"

\* mutant: HashMap::insert instead of the Vacant check: the open row is replaced
new_part_Replaces(self, pir) ==
    LET key == <<pir.head_num, pir.site_num>> IN
    Ok([self EXCEPT !.temp_rows =
          Insert(@, key, Row_new(pir, self.n_para, self.n_func, self.n_mult,
                                 self.wir))])

new_part(self, pir) ==
    LET key == <<pir.head_num, pir.site_num>> IN
    IF key \notin DOMAIN self.temp_rows
    THEN Ok([self EXCEPT !.temp_rows =
               @ @@ (key :> Row_new(pir, self.n_para, self.n_func, self.n_mult,
                                    self.wir))])
    ELSE Panicked(
           "opening a specific head_num/site_num before closing the previous one!",
           self)

\* mutant: unwrap_or(&0) instead of expect: an unknown test is written to slot 0
add_data_ptr_DefaultSlot(self, ptr) ==
    LET key == <<ptr.head_num, ptr.site_num>>
        result == ptr.result
    IN
    IF key \in DOMAIN self.temp_rows
    THEN LET index == IF ptr.test_num \in DOMAIN self.index_lookup
                      THEN self.index_lookup[ptr.test_num]
                      ELSE 0
         IN  IF index >= Len(self.temp_rows[key].results_parametric)
             THEN Panicked(IndexOutOfBounds, self)
             ELSE Ok([self EXCEPT
                        !.temp_rows[key].results_parametric[index + 1] = result])
    ELSE Panicked("trying to add data to a head_num/site_num that is not open!",
                  self)

\* mutant: a result of a test without a slot is given the next parametric slot
add_data_ptr_AllocatesSlot(self, ptr) ==
    LET key == <<ptr.head_num, ptr.site_num>>
        result == ptr.result
    IN
    IF key \in DOMAIN self.temp_rows
    THEN IF ptr.test_num \notin DOMAIN self.index_lookup
         THEN Ok([self EXCEPT
                    !.index_lookup = Insert(@, ptr.test_num, self.n_para),
                    !.n_para = @ + 1])
         ELSE LET index == self.index_lookup[ptr.test_num] IN
              IF index >= Len(self.temp_rows[key].results_parametric)
              THEN Panicked(IndexOutOfBounds, self)
              ELSE Ok([self EXCEPT
                         !.temp_rows[key].results_parametric[index + 1] = result])
    ELSE Panicked("trying to add data to a head_num/site_num that is not open!",
                  self)

add_data_ptr(self, ptr) ==
    LET key == <<ptr.head_num, ptr.site_num>>
        result == ptr.result
    IN
    IF key \in DOMAIN self.temp_rows
    THEN IF ptr.test_num \notin DOMAIN self.index_lookup
         THEN Panicked("found PTR with unknown test_num!", self)
         ELSE LET index == self.index_lookup[ptr.test_num] IN
              IF index >= Len(self.temp_rows[key].results_parametric)
              THEN Panicked(IndexOutOfBounds, self)
              ELSE Ok([self EXCEPT
                         !.temp_rows[key].results_parametric[index + 1] = result])
    ELSE Panicked("trying to add data to a head_num/site_num that is not open!",
                  self)

\* mutant: the mask is 0x40
FTR_get_passfail_Bit6(ftr) == (ftr.test_flg \div 64) % 2 = 0

\* FTR::get_passfail (src/src/records/records.rs): test_flg & 0x80 == 0
FTR_get_passfail(ftr) == (ftr.test_flg \div 128) % 2 = 0

\* mutant: a result for a key that is not open is dropped silently
add_data_ftr_IgnoresClosed(self, ftr) ==
    LET key == <<ftr.head_num, ftr.site_num>>
        result == FTR_get_passfail(ftr)
    IN
    IF key \in DOMAIN self.temp_rows
    THEN IF ftr.test_num \notin DOMAIN self.index_lookup
         THEN Panicked("found FTR with unknown test_num!", self)
         ELSE LET index == self.index_lookup[ftr.test_num] IN
              IF index >= Len(self.temp_rows[key].results_functional)
              THEN Panicked(IndexOutOfBounds, self)
              ELSE Ok([self EXCEPT
                         !.temp_rows[key].results_functional[index + 1] = result])
    ELSE Ok(self)

add_data_ftr(self, ftr) ==
    LET key == <<ftr.head_num, ftr.site_num>>
        result == FTR_get_passfail(ftr)
    IN
    IF key \in DOMAIN self.temp_rows
    THEN IF ftr.test_num \notin DOMAIN self.index_lookup
         THEN Panicked("found FTR with unknown test_num!", self)
         ELSE LET index == self.index_lookup[ftr.test_num] IN
              IF index >= Len(self.temp_rows[key].results_functional)
              THEN Panicked(IndexOutOfBounds, self)
              ELSE Ok([self EXCEPT
                         !.temp_rows[key].results_functional[index + 1] = result])
    ELSE Panicked("trying to add data to a head_num/site_num that is not open!",
                  self)

\* mutant: HashMap::insert instead of the Vacant check: the last MPR wins
add_data_mpr_LastWins(self, mpr) ==
    LET key == <<mpr.head_num, mpr.site_num>>
        result == mpr.rtn_rslt
        self1 == [self EXCEPT !.mpr_index_lookup =
                    Insert(@, mpr.test_num, mpr.rtn_indx)]
    IN
    IF key \in DOMAIN self1.temp_rows
    THEN IF mpr.test_num \notin DOMAIN self1.index_lookup
         THEN Panicked("found MPR with unknown test_num!", self1)
         ELSE LET index == self1.index_lookup[mpr.test_num] IN
              IF index >= Len(self1.temp_rows[key].results_multi_pin)
              THEN Panicked(IndexOutOfBounds, self1)
              ELSE Ok([self1 EXCEPT
                         !.temp_rows[key].results_multi_pin[index + 1] = result])
    ELSE Panicked("trying to add data to a head_num/site_num that is not open!",
                  self1)

add_data_mpr(self, mpr) ==
    LET key == <<mpr.head_num, mpr.site_num>>
        result == mpr.rtn_rslt
        \* the pin registry is written before the row is looked up
        self1 == IF mpr.test_num \notin DOMAIN self.mpr_index_lookup
                 THEN [self EXCEPT !.mpr_index_lookup =
                         Insert(@, mpr.test_num, mpr.rtn_indx)]
                 ELSE self
    IN
    IF key \in DOMAIN self1.temp_rows
    THEN IF mpr.test_num \notin DOMAIN self1.index_lookup
         THEN Panicked("found MPR with unknown test_num!", self1)
         ELSE LET index == self1.index_lookup[mpr.test_num] IN
              IF index >= Len(self1.temp_rows[key].results_multi_pin)
              THEN Panicked(IndexOutOfBounds, self1)
              ELSE Ok([self1 EXCEPT
                         !.temp_rows[key].results_multi_pin[index + 1] = result])
    ELSE Panicked("trying to add data to a head_num/site_num that is not open!",
                  self1)

\* mutant: a part-end for a key that is not open appends a row of its own
finish_part_AppendsUnopened(self, prr) ==
    LET key == <<prr.head_num, prr.site_num>>
        old == IF key \in DOMAIN self.temp_rows
               THEN self.temp_rows[key]
               ELSE Row_new(prr, self.n_para, self.n_func, self.n_mult, self.wir)
        row == [old EXCEPT !.part_id  = prr.part_id,
                           !.part_txt = prr.part_txt,
                           !.x_coord  = prr.x_coord,
                           !.y_coord  = prr.y_coord,
                           !.sbin     = prr.soft_bin,
                           !.hbin     = prr.hard_bin]
    IN  Ok([self EXCEPT !.temp_rows = Remove(@, key),
                        !.data = Append(@, row)])

\* mutant: soft_bin and hard_bin are exchanged
finish_part_SwapsBins(self, prr) ==
    LET key == <<prr.head_num, prr.site_num>> IN
    IF key \in DOMAIN self.temp_rows
    THEN LET row == [self.temp_rows[key] EXCEPT !.part_id  = prr.part_id,
                                                !.part_txt = prr.part_txt,
                                                !.x_coord  = prr.x_coord,
                                                !.y_coord  = prr.y_coord,
                                                !.sbin     = prr.hard_bin,
                                                !.hbin     = prr.soft_bin]
         IN  Ok([self EXCEPT !.temp_rows = Remove(@, key),
                             !.data = Append(@, row)])
    ELSE Panicked("trying to close out a head_num/site_num that is not open!",
                  self)

\* mutant: the finished row is appended and the key stays open
finish_part_KeepsOpen(self, prr) ==
    LET key == <<prr.head_num, prr.site_num>> IN
    IF key \in DOMAIN self.temp_rows
    THEN LET row == [self.temp_rows[key] EXCEPT !.part_id  = prr.part_id,
                                                !.part_txt = prr.part_txt,
                                                !.x_coord  = prr.x_coord,
                                                !.y_coord  = prr.y_coord,
                                                !.sbin     = prr.soft_bin,
                                                !.hbin     = prr.hard_bin]
         IN  Ok([self EXCEPT !.data = Append(@, row)])
    ELSE Panicked("trying to close out a head_num/site_num that is not open!",
                  self)

\* mutant: the finished row is put in front of the collection
finish_part_Prepends(self, prr) ==
    LET key == <<prr.head_num, prr.site_num>> IN
    IF key \in DOMAIN self.temp_rows
    THEN LET row == [self.temp_rows[key] EXCEPT !.part_id  = prr.part_id,
                                                !.part_txt = prr.part_txt,
                                                !.x_coord  = prr.x_coord,
                                                !.y_coord  = prr.y_coord,
                                                !.sbin     = prr.soft_bin,
                                                !.hbin     = prr.hard_bin]
         IN  Ok([self EXCEPT !.temp_rows = Remove(@, key),
                             !.data = <<row>> \o @])
    ELSE Panicked("trying to close out a head_num/site_num that is not open!",
                  self)

finish_part(self, prr) ==
    LET key == <<prr.head_num, prr.site_num>> IN
    IF key \in DOMAIN self.temp_rows
    THEN LET row == [self.temp_rows[key] EXCEPT !.part_id  = prr.part_id,
                                                !.part_txt = prr.part_txt,
                                                !.x_coord  = prr.x_coord,
                                                !.y_coord  = prr.y_coord,
                                                !.sbin     = prr.soft_bin,
                                                !.hbin     = prr.hard_bin]
         IN  Ok([self EXCEPT !.temp_rows = Remove(@, key),
                             !.data = Append(@, row)])
    ELSE Panicked("trying to close out a head_num/site_num that is not open!",
                  self)

\* mutant: the wafer id is also written to the rows that are open
new_wafer_StampsOpenRows(self, w) ==
    [self EXCEPT !.wir = w,
                 !.temp_rows = [k \in DOMAIN @ |->
                                  [@[k] EXCEPT !.wafer_id = w.wafer_id]]]

new_wafer(self, w) == [self EXCEPT !.wir = w]

\* mutant: the wafer context is not cleared
close_wafer_KeepsWafer(self) == self

close_wafer(self) == [self EXCEPT !.wir = None]
\* mutant: the smallest n_pins per slot
MultipinLengths_Smallest(rows, n) ==
    [i \in 1 .. n |->
       IF rows = << >>
       THEN 0
       ELSE LET lens == { Len(rows[r].results_multi_pin[i]) : r \in DOMAIN rows }
            IN  CHOOSE l \in lens : \A m \in lens : l <= m]

\* the first loop of normalize_multipin_results: the largest n_pins per slot
RECURSIVE MultipinLengths(_, _)
MultipinLengths(rows, n) ==
    IF rows = << >>
    THEN [i \in 1 .. n |-> 0]
    ELSE LET lengths == MultipinLengths(SubSeq(rows, 1, Len(rows) - 1), n)
             row == rows[Len(rows)]
         IN  [i \in 1 .. n |->
                IF lengths[i] < Len(row.results_multi_pin[i])
                THEN Len(row.results_multi_pin[i])
                ELSE lengths[i]]

\* Vec::resize(new_len, value)
Resize(v, new_len, value) ==
    IF new_len <= Len(v)
    THEN SubSeq(v, 1, new_len)
    ELSE v \o [i \in 1 .. (new_len - Len(v)) |-> value]

\* mutant: a vector that is empty is left empty
normalize_multipin_results_SkipsEmpty(self) ==
    LET lengths == MultipinLengths(self.data, self.n_mult) IN
    [self EXCEPT !.data =
       [r \in DOMAIN @ |->
          [@[r] EXCEPT !.results_multi_pin =
             [i \in DOMAIN @ |-> IF @[i] = << >>
                                 THEN << >>
                                 ELSE Resize(@[i], lengths[i], NaN)]]]]

normalize_multipin_results(self) ==
    LET lengths == MultipinLengths(self.data, self.n_mult) IN
    [self EXCEPT !.data =
       [r \in DOMAIN @ |->
          [@[r] EXCEPT !.results_multi_pin =
             [i \in DOMAIN @ |-> Resize(@[i], lengths[i], NaN)]]]]

(***************************************************************************)
(* State.                                                                  *)
(***************************************************************************)
VARIABLES
    test_data,   \* the TestData value of from_fname
    phase,       \* "pass2" while the record loop runs, "done" once it returned
    n_records,   \* records read so far in pass 2
    panic,       \* "none", or the message of the panic that ended the run
    \* history, read by the properties only
    wafer_hist,  \* id of the wafer region the stream is in, "" when in none
    temp_hist,   \* (head_num, site_num) -> what the open row received
    data_hist,   \* what the finished row data[i] received while it was open
    pass1,       \* the locals of pass 1 and merge(), and their history
    stdf,        \* the file and the locals of STDF::from_fname
    records      \* the Records iterator over a byte source, and what it yielded

vars ==
    <<test_data, phase, n_records, panic, wafer_hist, temp_hist, data_hist,
      pass1, stdf, records>>

\* pass1 once FullTestInformation::from_fname and merge() returned and their
\* values were moved into the TestData value; the history is not kept
Pass1Moved ==
    [test_info |-> << >>, merged_test_info |-> << >>, order |-> << >>,
     seen |-> {}]

\* the streams pass 1 may have read
Pass1Records == TSRs \cup PTRs1

Pass1Streams ==
    UNION { [1 .. n -> Pass1Records] : n \in 0 .. MaxPass1 }

\* the state when the record loop of pass 2 starts
Init ==
    \E stream \in Pass1Streams :
      LET test_infos == FullTestInformation_from_fname(stream) IN
      \E order \in IterationOrders(test_infos) :
        /\ test_data = TestData_new(test_infos, order)
        /\ phase = "pass2"
        /\ n_records = 0
        /\ panic = "none"
        /\ wafer_hist = ""
        /\ temp_hist = << >>
        /\ data_hist = << >>
        /\ pass1 = Pass1Moved
        /\ stdf = None
        /\ records = None

(***************************************************************************)
(* TestData::from_fname: the record loop of pass 2.                        *)
(***************************************************************************)
Running == phase = "pass2" /\ panic = "none"

\* the loop reads one more record and dispatches it; `out` is the outcome of
\* the method the record is dispatched to
Dispatch(out) ==
    /\ Running
    /\ n_records < MaxRecords
    /\ n_records' = n_records + 1
    /\ test_data' = out.self
    /\ panic' = out.panic
    /\ phase' = phase
    /\ pass1' = pass1
    /\ UNCHANGED <<stdf, records>>

\* history of a row just opened
Opened == [opened_in |-> wafer_hist, arrived |-> {},
           ptr_last |-> << >>, ptr_many |-> {}]

\* history of a row after the result record rec was written to it
Received(h, rec) ==
    [h EXCEPT
       !.arrived  = @ \cup {<<rec.kind, rec.test_num>>},
       !.ptr_last = IF rec.kind = "PTR"
                    THEN Insert(@, rec.test_num, rec.result)
                    ELSE @,
       !.ptr_many = IF rec.kind = "PTR" /\ rec.test_num \in DOMAIN h.ptr_last
                    THEN @ \cup {rec.test_num}
                    ELSE @]

HistoryOfResult(rec) ==
    /\ temp_hist' = IF /\ panic' = "none"
                       /\ <<rec.head_num, rec.site_num>> \in DOMAIN temp_hist
                    THEN [temp_hist EXCEPT ![<<rec.head_num, rec.site_num>>] =
                            Received(@, rec)]
                    ELSE temp_hist
    /\ UNCHANGED <<wafer_hist, data_hist>>

from_fname_WIR ==
    \E w \in WIRs :
      /\ Dispatch(Ok(new_wafer(test_data, w)))
      /\ wafer_hist' = w.wafer_id
      /\ UNCHANGED <<temp_hist, data_hist>>

from_fname_PIR ==
    \E pir \in PIRs :
      /\ Dispatch(new_part(test_data, pir))
      /\ temp_hist' = IF panic' = "none"
                      THEN Insert(temp_hist, <<pir.head_num, pir.site_num>>,
                                  Opened)
                      ELSE temp_hist
      /\ UNCHANGED <<wafer_hist, data_hist>>

from_fname_PTR ==
    \E ptr \in PTRs :
      /\ Dispatch(add_data_ptr(test_data, ptr))
      /\ HistoryOfResult(ptr)

from_fname_FTR ==
    \E ftr \in FTRs :
      /\ Dispatch(add_data_ftr(test_data, ftr))
      /\ HistoryOfResult(ftr)

from_fname_MPR ==
    \E mpr \in MPRs :
      /\ Dispatch(add_data_mpr(test_data, mpr))
      /\ HistoryOfResult(mpr)

from_fname_PRR ==
    \E prr \in PRRs :
      LET key == <<prr.head_num, prr.site_num>> IN
      /\ Dispatch(finish_part(test_data, prr))
      /\ IF panic' = "none"
         THEN /\ temp_hist' = Remove(temp_hist, key)
              /\ data_hist' = Append(data_hist,
                                     IF key \in DOMAIN temp_hist
                                     THEN temp_hist[key]
                                     ELSE Opened)
         ELSE UNCHANGED <<temp_hist, data_hist>>
      /\ UNCHANGED wafer_hist

from_fname_WRR ==
    \E wrr \in WRRs :
      /\ Dispatch(Ok(close_wafer(test_data)))
      /\ wafer_hist' = ""
      /\ UNCHANGED <<temp_hist, data_hist>>

\* mutant: the rows are returned without being normalized
from_fname_end_WithoutFinalize ==
    /\ Running
    /\ test_data' = test_data
    /\ phase' = "done"
    /\ UNCHANGED <<n_records, panic, wafer_hist, temp_hist, data_hist, pass1,
                   stdf, records>>

\* the stream is exhausted: the rows are normalized and returned
from_fname_end ==
    /\ Running
    /\ test_data' = normalize_multipin_results(test_data)
    /\ phase' = "done"
    /\ UNCHANGED <<n_records, panic, wafer_hist, temp_hist, data_hist, pass1,
                   stdf, records>>

Next ==
    \/ from_fname_WIR
    \/ from_fname_PIR
    \/ from_fname_PTR
    \/ from_fname_FTR
    \/ from_fname_MPR
    \/ from_fname_PRR
    \/ from_fname_WRR
    \/ from_fname_end

Spec == Init /\ [][Next]_vars

\* the record loop goes on while the stream has a record, and the function
\* returns when it has none: a run does not stop halfway
FairSpec == Spec /\ WF_vars(Next)

(***************************************************************************)
(* Pass 1 and merge() step by step: FullTestInformation::from_fname reads  *)
(* the stream, TestData::new merges the table entry by entry and lays the  *)
(* columns out.                                                            *)
(***************************************************************************)
\* the state when the record loop of pass 1 starts
Pass1Init ==
    /\ pass1 = [test_info |-> FullTestInformation_new,
                merged_test_info |-> << >>, order |-> << >>, seen |-> {}]
    /\ phase = "pass1"
    /\ n_records = 0
    /\ panic = "none"
    /\ test_data = None
    /\ wafer_hist = ""
    /\ temp_hist = << >>
    /\ data_hist = << >>
    /\ stdf = None
    /\ records = None

\* the loop of pass 1 reads the record rec
Pass1Read(rec) ==
    /\ phase = "pass1"
    /\ n_records < MaxStream
    /\ n_records' = n_records + 1
    /\ pass1' = [pass1 EXCEPT
                   !.test_info = FullTestInformation_from_fname_step(@, rec),
                   !.seen = @ \cup {Sighting(rec)}]
    /\ UNCHANGED <<test_data, phase, panic, wafer_hist, temp_hist, data_hist,
                   stdf, records>>

pass1_TSR == \E tsr \in StreamTSRs : Pass1Read(tsr)

pass1_PTR == \E ptr \in StreamPTRs : Pass1Read(ptr)

pass1_other == \E rec \in StreamOthers : Pass1Read(rec)

\* the stream is exhausted: from_fname returns and TestData::new calls merge()
pass1_end ==
    /\ phase = "pass1"
    /\ phase' = "merge"
    /\ UNCHANGED <<test_data, n_records, panic, wafer_hist, temp_hist,
                   data_hist, pass1, stdf, records>>

\* the entries merge() has not visited yet
Unvisited ==
    DOMAIN pass1.test_info \ { pass1.order[i] : i \in DOMAIN pass1.order }

\* the u32 addition of MergedTestInformation::add overflows
AddOverflows(merged, ti) ==
    /\ ti.test_num \in DOMAIN merged
    /\ U32AddOverflows(merged[ti.test_num].execution_count, ti.execution_count)

AddWithOverflow == "attempt to add with overflow"

\* one iteration of the loop of merge(): values() yields any entry not yet
\* visited; an overflowing addition wraps or, with overflow checks, panics
merge_step ==
    /\ phase = "merge"
    /\ panic = "none"
    /\ \E key \in Unvisited :
         LET ti == pass1.test_info[key] IN
         \/ /\ pass1' = [pass1 EXCEPT
                           !.merged_test_info =
                              FullMergedTestInformation_add_from_test_information(
                                  @, ti),
                           !.order = Append(@, key)]
            /\ panic' = panic
         \/ /\ AddOverflows(pass1.merged_test_info, ti)
            /\ panic' = AddWithOverflow
            /\ pass1' = pass1
    /\ UNCHANGED <<test_data, phase, n_records, wafer_hist, temp_hist,
                   data_hist, stdf, records>>

\* merge() returned: TestData::new lays the columns out and builds the value
TestData_new_layout ==
    /\ phase = "merge"
    /\ panic = "none"
    /\ Unvisited = {}
    /\ test_data' = TestData_new(pass1.test_info, pass1.order)
    /\ phase' = "pass2"
    /\ pass1' = [pass1 EXCEPT !.test_info = << >>, !.merged_test_info = << >>]
    /\ UNCHANGED <<n_records, panic, wafer_hist, temp_hist, data_hist, stdf,
                   records>>

Pass1Next ==
    \/ pass1_TSR
    \/ pass1_PTR
    \/ pass1_other
    \/ pass1_end
    \/ merge_step
    \/ TestData_new_layout

Pass1Spec == Pass1Init /\ [][Pass1Next]_vars

(***************************************************************************)
(* Pass 1 and merge() over streams of the parametric synopses and the      *)
(* results of two tests.                                                   *)
(***************************************************************************)
KeyTSRs == { tsr \in StreamTSRs : tsr.test_typ = "P" /\ tsr.test_num \in Tests }

KeyPTRs == { ptr \in StreamPTRs : ptr.test_num \in Tests }

keys_TSR == \E tsr \in KeyTSRs : Pass1Read(tsr)

keys_PTR == \E ptr \in KeyPTRs : Pass1Read(ptr)

KeysNext ==
    \/ keys_TSR
    \/ keys_PTR
    \/ pass1_end
    \/ merge_step
    \/ TestData_new_layout

KeysSpec == Pass1Init /\ [][KeysNext]_vars

(***************************************************************************)
(* STDF::from_fname over one file: pass 1 reads the file, TestData::new     *)
(* merges and lays out, the record loop of pass 2 reads the same file       *)
(* again, and the result is assembled once the file is exhausted.           *)
(***************************************************************************)
\* the synopsis, result, part-start, part-end and site-description records of
\* the end-to-end scenario
ScenarioTSR ==
    [kind |-> "TSR", head_num |-> 1, site_num |-> 1, test_typ |-> "P",
     test_num |-> 100, exec_cnt |-> U32(1), test_nam |-> "nam",
     seq_name |-> "seq", test_lbl |-> "lbl", test_tim |-> "0.5"]

ScenarioPTR ==
    [kind |-> "PTR", test_num |-> 100, head_num |-> 1, site_num |-> 1,
     test_flg |-> 0, result |-> "3.5", test_txt |-> "txt",
     res_scal |-> 3, llm_scal |-> 1, hlm_scal |-> 2,
     lo_limit |-> "0.1", hi_limit |-> "0.9", units |-> "V",
     lo_spec |-> "0.2", hi_spec |-> "0.8"]

ScenarioPIR == [kind |-> "PIR", head_num |-> 1, site_num |-> 1]

ScenarioPRR ==
    [kind |-> "PRR", head_num |-> 1, site_num |-> 1, part_id |-> "P1",
     part_txt |-> "", x_coord |-> 3, y_coord |-> 4, soft_bin |-> 1,
     hard_bin |-> 1]

ScenarioSDR == [kind |-> "SDR", head_num |-> 1, site_grp |-> 1, site_cnt |-> 1]

\* the scenario: the five records, twice
ScenarioFile ==
    LET unit == <<ScenarioSDR, ScenarioTSR, ScenarioPIR, ScenarioPTR,
                  ScenarioPRR>>
    IN  unit \o unit

\* a second synopsis and a second result record of the same key, with other
\* contents; a synopsis and a result record of head 255
FileTSRs ==
    { ScenarioTSR,
      [ScenarioTSR EXCEPT !.test_typ = "F", !.exec_cnt = U32(2),
                          !.test_nam = "nam2", !.seq_name = "seq2",
                          !.test_lbl = "lbl2", !.test_tim = "1.5"],
      [ScenarioTSR EXCEPT !.head_num = 255, !.site_num = 255,
                          !.test_nam = "all"] }

FilePTRs ==
    { ScenarioPTR,
      [ScenarioPTR EXCEPT !.result = "1.5", !.test_txt = "txt2",
                          !.res_scal = 6, !.llm_scal = 4, !.hlm_scal = 5,
                          !.lo_limit = "1.1", !.hi_limit = "1.9",
                          !.units = "A", !.lo_spec = "1.2", !.hi_spec = "1.8"],
      [ScenarioPTR EXCEPT !.head_num = 255, !.site_num = 255] }

MIRs == [kind : {"MIR"}, lot_id : {"L1", "L2"}]

MRRs == [kind : {"MRR"}, finish_t : {9}]

FileRecords ==
    FileTSRs \cup FilePTRs \cup MIRs \cup MRRs
      \cup {ScenarioPIR, ScenarioPRR, ScenarioSDR}

\* the files: every sequence of n records, for n up to MaxFile, and the
\* scenario, which is longer
Files(n) ==
    IF n <= MaxFile THEN [1 .. n -> FileRecords] ELSE {ScenarioFile}

MasterInformation_new(mir, mrr) ==
    [lot_id |-> mir.lot_id, finish_t |-> mrr.finish_t]

WaferInformation_new(w, wrr) ==
    [head_num |-> w.head_num, site_grp |-> w.site_grp, start_t |-> w.start_t,
     wafer_id |-> wrr.wafer_id]

\* the locals of STDF::from_fname before the record loop
STDF_locals ==
    [opt_mir |-> None, opt_mrr |-> None, opt_sdr |-> None,
     wirs |-> << >>, wrrs |-> << >>,
     soft_bins |-> << >>, hard_bins |-> << >>, pins |-> << >>]

\* the outcome of a row operation, the locals being left as they were
WithLocals(out, locals) ==
    [panic |-> out.panic, self |-> out.self, locals |-> locals]

\* one iteration of the record loop of STDF::from_fname: the match on the
\* resolved record
STDF_from_fname_step(locals, self, rec) ==
    CASE rec.kind = "MIR" ->
           WithLocals(Ok(self), [locals EXCEPT !.opt_mir = rec])
      [] rec.kind = "MRR" ->
           WithLocals(Ok(self), [locals EXCEPT !.opt_mrr = rec])
      [] rec.kind = "SDR" ->
           WithLocals(Ok(self), [locals EXCEPT !.opt_sdr = rec])
      [] rec.kind = "SBR" ->
           WithLocals(Ok(self),
                      [locals EXCEPT !.soft_bins = Insert(@, rec.sbin_num, rec)])
      [] rec.kind = "HBR" ->
           WithLocals(Ok(self),
                      [locals EXCEPT !.hard_bins = Insert(@, rec.hbin_num, rec)])
      [] rec.kind = "PMR" ->
           WithLocals(Ok(self),
                      [locals EXCEPT !.pins = Insert(@, rec.pmr_indx, rec)])
      [] rec.kind = "WIR" ->
           WithLocals(Ok(new_wafer(self, rec)),
                      [locals EXCEPT !.wirs = Append(@, rec)])
      [] rec.kind = "WRR" ->
           WithLocals(Ok(close_wafer(self)),
                      [locals EXCEPT !.wrrs = Append(@, rec)])
      [] rec.kind = "PIR" -> WithLocals(new_part(self, rec), locals)
      [] rec.kind = "PTR" -> WithLocals(add_data_ptr(self, rec), locals)
      [] rec.kind = "FTR" -> WithLocals(add_data_ftr(self, rec), locals)
      [] rec.kind = "MPR" -> WithLocals(add_data_mpr(self, rec), locals)
      [] rec.kind = "PRR" -> WithLocals(finish_part(self, rec), locals)
      [] OTHER            -> WithLocals(Ok(self), locals)

Min(a, b) == IF a <= b THEN a ELSE b

\* mutant: the site description is not asked for
STDF_from_fname_result_WithoutSDR(locals) ==
    IF locals.opt_mir # None /\ locals.opt_mrr # None
    THEN [kind |-> "Ok",
          master_information |->
              MasterInformation_new(locals.opt_mir, locals.opt_mrr),
          wafer_information |->
              [i \in 1 .. Min(Len(locals.wirs), Len(locals.wrrs)) |->
                  WaferInformation_new(locals.wirs[i], locals.wrrs[i])],
          site_information |-> locals.opt_sdr,
          soft_bins |-> locals.soft_bins,
          hard_bins |-> locals.hard_bins,
          pins |-> locals.pins]
    ELSE [kind |-> "Err", error |-> "UnexpectedEof"]

\* the value STDF::from_fname returns after the loop
STDF_from_fname_result(locals) ==
    IF locals.opt_mir # None /\ locals.opt_mrr # None /\ locals.opt_sdr # None
    THEN [kind |-> "Ok",
          master_information |->
              MasterInformation_new(locals.opt_mir, locals.opt_mrr),
          wafer_information |->
              [i \in 1 .. Min(Len(locals.wirs), Len(locals.wrrs)) |->
                  WaferInformation_new(locals.wirs[i], locals.wrrs[i])],
          site_information |-> locals.opt_sdr,
          soft_bins |-> locals.soft_bins,
          hard_bins |-> locals.hard_bins,
          pins |-> locals.pins]
    ELSE [kind |-> "Err", error |-> "UnexpectedEof"]

\* the state when STDF::from_fname is called on a file
StdfInit ==
    \E n \in 0 .. MaxFile + 1 : \E f \in Files(n) :
      /\ stdf = [file |-> f, pos |-> 0, locals |-> STDF_locals,
                 result |-> None]
      /\ pass1 = [test_info |-> FullTestInformation_new,
                  merged_test_info |-> << >>, order |-> << >>, seen |-> {}]
      /\ phase = "pass1"
      /\ n_records = 0
      /\ panic = "none"
      /\ test_data = None
      /\ wafer_hist = ""
      /\ temp_hist = << >>
      /\ data_hist = << >>
      /\ records = None

\* the record loop of FullTestInformation::from_fname reads the next record
stdf_pass1_read ==
    /\ phase = "pass1"
    /\ stdf.pos < Len(stdf.file)
    /\ pass1' = [pass1 EXCEPT
                   !.test_info = FullTestInformation_from_fname_step(
                                     @, stdf.file[stdf.pos + 1])]
    /\ stdf' = [stdf EXCEPT !.pos = @ + 1]
    /\ UNCHANGED <<test_data, phase, n_records, panic, wafer_hist, temp_hist,
                   data_hist, records>>

\* the file is exhausted: pass 1 returns, TestData::new merges the table in
\* the order values() yields it and lays the columns out, and the file is
\* opened again
stdf_TestData_new ==
    /\ phase = "pass1"
    /\ stdf.pos = Len(stdf.file)
    /\ \E order \in IterationOrders(pass1.test_info) :
         /\ test_data' = TestData_new(pass1.test_info, order)
         /\ pass1' = [pass1 EXCEPT !.test_info = << >>, !.order = order]
    /\ stdf' = [stdf EXCEPT !.pos = 0]
    /\ phase' = "pass2"
    /\ UNCHANGED <<n_records, panic, wafer_hist, temp_hist, data_hist, records>>

\* the record loop of STDF::from_fname reads the next record
stdf_pass2_read ==
    /\ phase = "pass2"
    /\ panic = "none"
    /\ stdf.pos < Len(stdf.file)
    /\ LET out == STDF_from_fname_step(stdf.locals, test_data,
                                       stdf.file[stdf.pos + 1])
       IN  /\ test_data' = out.self
           /\ panic' = out.panic
           /\ stdf' = [stdf EXCEPT !.pos = @ + 1, !.locals = out.locals]
    /\ UNCHANGED <<phase, n_records, wafer_hist, temp_hist, data_hist, pass1,
                   records>>

\* the file is exhausted: the rows are normalized and the result is assembled
stdf_end ==
    /\ phase = "pass2"
    /\ panic = "none"
    /\ stdf.pos = Len(stdf.file)
    /\ test_data' = normalize_multipin_results(test_data)
    /\ stdf' = [stdf EXCEPT !.result = STDF_from_fname_result(stdf.locals)]
    /\ phase' = "done"
    /\ UNCHANGED <<n_records, panic, wafer_hist, temp_hist, data_hist, pass1,
                   records>>

StdfNext ==
    \/ stdf_pass1_read
    \/ stdf_TestData_new
    \/ stdf_pass2_read
    \/ stdf_end

StdfSpec == StdfInit /\ [][StdfNext]_vars

(***************************************************************************)
(* The record reader (src/src/records.rs): Records iterates over a byte     *)
(* source; the loops of both passes call next() until it returns None.      *)
(***************************************************************************)
\* the byte values of the sources
Bytes == {0, 1, 10}

Sources == UNION { [1 .. n -> Bytes] : n \in 0 .. MaxSource }

\* Read::read_exact of n bytes at position pos: the bytes, or an error that
\* leaves the reader at the end of the source
read_exact(source, pos, n) ==
    IF pos + n <= Len(source)
    THEN [ok |-> TRUE, buf |-> SubSeq(source, pos + 1, pos + n), pos |-> pos + n]
    ELSE [ok |-> FALSE, buf |-> << >>, pos |-> Len(source)]

\* rec_len is a little-endian u16
Header_from_bytes(bytes) ==
    [rec_len |-> bytes[1] + 256 * bytes[2], rec_typ |-> bytes[3],
     rec_sub |-> bytes[4]]

Header_from_file(source, pos) ==
    LET r == read_exact(source, pos, 4) IN
    IF r.ok
    THEN [ok |-> TRUE, header |-> Header_from_bytes(r.buf), pos |-> r.pos]
    ELSE [ok |-> FALSE, header |-> None, pos |-> r.pos]

RecordType_new(rec_typ, rec_sub) ==
    LET known ==
          <<0, 10>> :> "FAR" @@ <<0, 20>> :> "ATR" @@ <<0, 30>> :> "VUR" @@
          <<1, 10>> :> "MIR" @@ <<1, 20>> :> "MRR" @@ <<1, 30>> :> "PCR" @@
          <<1, 40>> :> "HBR" @@ <<1, 50>> :> "SBR" @@ <<1, 60>> :> "PMR" @@
          <<1, 62>> :> "PGR" @@ <<1, 63>> :> "PLR" @@ <<1, 70>> :> "RDR" @@
          <<1, 80>> :> "SDR" @@ <<1, 90>> :> "PSR" @@
          <<2, 10>> :> "WIR" @@ <<2, 20>> :> "WRR" @@ <<2, 30>> :> "WCR" @@
          <<5, 10>> :> "PIR" @@ <<5, 20>> :> "PRR" @@
          <<10, 30>> :> "TSR" @@
          <<15, 10>> :> "PTR" @@ <<15, 15>> :> "MPR" @@ <<15, 20>> :> "FTR" @@
          <<20, 10>> :> "BPS" @@ <<20, 20>> :> "EPS" @@
          <<50, 10>> :> "GDR" @@ <<50, 30>> :> "DTR"
    IN  IF <<rec_typ, rec_sub>> \in DOMAIN known
        THEN known[<<rec_typ, rec_sub>>]
        ELSE "InvalidRecord"

\* mutant: a short read of the contents yields the bytes that were there
RawRecord_from_header_Partial(header, source, pos, offset) ==
    LET r == read_exact(source, pos, header.rec_len) IN
    [ok     |-> TRUE,
     record |-> [header |-> header, offset |-> offset,
                 contents |-> IF r.ok
                              THEN r.buf
                              ELSE SubSeq(source, pos + 1, Len(source)),
                 rtype |-> RecordType_new(header.rec_typ, header.rec_sub)],
     pos    |-> r.pos]

RawRecord_from_header(header, source, pos, offset) ==
    LET r == read_exact(source, pos, header.rec_len) IN
    IF r.ok
    THEN [ok     |-> TRUE,
          record |-> [header |-> header, offset |-> offset, contents |-> r.buf,
                      rtype |-> RecordType_new(header.rec_typ, header.rec_sub)],
          pos    |-> r.pos]
    ELSE [ok |-> FALSE, record |-> None, pos |-> r.pos]

\* Records::new
Records_new(source) == [source |-> source, pos |-> 0, offset |-> 0]

\* Iterator::next: the iterator afterwards and the item, None when there is
\* none
Records_next(self) ==
    LET h == Header_from_file(self.source, self.pos) IN
    IF h.ok
    THEN LET offset == self.offset + h.header.rec_len
             r == RawRecord_from_header(h.header, self.source, h.pos, offset)
         IN  [self |-> [self EXCEPT !.pos = r.pos, !.offset = offset],
              item |-> IF r.ok THEN r.record ELSE None]
    ELSE [self |-> [self EXCEPT !.pos = h.pos], item |-> None]

\* a loop `for record in records` is about to start on a source
RecordsInit ==
    \E source \in Sources :
      /\ records = [iter |-> Records_new(source), yielded |-> << >>,
                    ended |-> FALSE]
      /\ phase = "records"
      /\ n_records = 0
      /\ panic = "none"
      /\ test_data = None
      /\ wafer_hist = ""
      /\ temp_hist = << >>
      /\ data_hist = << >>
      /\ pass1 = Pass1Moved
      /\ stdf = None

\* the loop calls next(): it takes the record, or ends on None
records_next ==
    /\ phase = "records"
    /\ ~ records.ended
    /\ LET out == Records_next(records.iter) IN
       records' = [iter    |-> out.self,
                   yielded |-> IF out.item # None
                               THEN Append(records.yielded, out.item)
                               ELSE records.yielded,
                   ended   |-> out.item = None]
    /\ UNCHANGED <<test_data, phase, n_records, panic, wafer_hist, temp_hist,
                   data_hist, pass1, stdf>>

RecordsNext == records_next

RecordsSpec == RecordsInit /\ [][RecordsNext]_vars

(***************************************************************************)
(* Decoding (src/src/util.rs, src/src/records/records.rs) and the record   *)
(* loops of TestData::from_fname over a byte source.  A field reader takes *)
(* the contents and the offset (counted from 0) and gives the value and    *)
(* the offset after it, or panics when it indexes past the contents.       *)
(***************************************************************************)
Read(x, offset) == [ok |-> TRUE, x |-> x, offset |-> offset]

ReadPanicked == [ok |-> FALSE, x |-> None, offset |-> 0]

U1(bytes, offset) ==
    IF offset < Len(bytes)
    THEN Read(bytes[offset + 1], offset + 1)
    ELSE ReadPanicked

\* u16::from_le_bytes
U2(bytes, offset) ==
    IF offset + 2 <= Len(bytes)
    THEN Read(bytes[offset + 1] + 256 * bytes[offset + 2], offset + 2)
    ELSE ReadPanicked

\* i16::from_le_bytes: two's complement
I2(bytes, offset) ==
    IF offset + 2 <= Len(bytes)
    THEN LET u == bytes[offset + 1] + 256 * bytes[offset + 2]
         IN  Read(IF u >= 32768 THEN u - 65536 ELSE u, offset + 2)
    ELSE ReadPanicked

\* u32::from_le_bytes, as the pair of 16-bit halves <<high, low>>
U4(bytes, offset) ==
    IF offset + 4 <= Len(bytes)
    THEN Read(<<bytes[offset + 3] + 256 * bytes[offset + 4],
                bytes[offset + 1] + 256 * bytes[offset + 2]>>, offset + 4)
    ELSE ReadPanicked

\* f32::from_le_bytes: the float is kept as its bit pattern
R4(bytes, offset) ==
    IF offset + 4 <= Len(bytes)
    THEN Read(<<"f32", bytes[offset + 3] + 256 * bytes[offset + 4],
                bytes[offset + 1] + 256 * bytes[offset + 2]>>, offset + 4)
    ELSE ReadPanicked

\* char::from_u32 of a byte: the characters TestType knows, or the code point
C1(bytes, offset) ==
    IF offset < Len(bytes)
    THEN LET b == bytes[offset + 1]
         IN  Read(CASE b = 80 -> "P"
                    [] b = 70 -> "F"
                    [] b = 77 -> "M"
                    [] b = 83 -> "S"
                    [] OTHER  -> <<"char", b>>, offset + 1)
    ELSE ReadPanicked

\* a length byte and that many bytes, which have to be UTF-8: bytes below 128
\* are, and a byte of 248 or more never is.  The String is kept as its bytes.
Cn(bytes, offset) ==
    IF offset < Len(bytes)
    THEN LET length == bytes[offset + 1] IN
         IF offset + 1 + length <= Len(bytes)
         THEN LET s == SubSeq(bytes, offset + 2, offset + 1 + length) IN
              IF \A i \in DOMAIN s : s[i] < 128
              THEN Read(s, offset + 1 + length)
              ELSE ReadPanicked
         ELSE ReadPanicked
    ELSE ReadPanicked

\* a length byte and that many bytes
Bn(bytes, offset) ==
    IF offset < Len(bytes)
    THEN LET length == bytes[offset + 1] IN
         IF offset + 1 + length <= Len(bytes)
         THEN Read(SubSeq(bytes, offset + 2, offset + 1 + length),
                   offset + 1 + length)
         ELSE ReadPanicked
    ELSE ReadPanicked

ReadField(type, bytes, offset) ==
    CASE type = "U1" -> U1(bytes, offset)
      [] type = "U2" -> U2(bytes, offset)
      [] type = "I2" -> I2(bytes, offset)
      [] type = "U4" -> U4(bytes, offset)
      [] type = "R4" -> R4(bytes, offset)
      [] type = "C1" -> C1(bytes, offset)
      [] type = "Cn" -> Cn(bytes, offset)
      [] type = "Bn" -> Bn(bytes, offset)

\* the fields of a decoder read one after the other from offset 0: the values,
\* or a panic at the first field that does not fit
RECURSIVE ReadFields(_, _)
ReadFields(types, bytes) ==
    IF types = << >>
    THEN [ok |-> TRUE, x |-> << >>, offset |-> 0]
    ELSE LET before == ReadFields(SubSeq(types, 1, Len(types) - 1), bytes) IN
         IF ~ before.ok
         THEN ReadPanicked
         ELSE LET r == ReadField(types[Len(types)], bytes, before.offset) IN
              IF ~ r.ok
              THEN ReadPanicked
              ELSE [ok |-> TRUE, x |-> Append(before.x, r.x),
                    offset |-> r.offset]

\* the outcome of a decoder
Decoded(rec) == [panic |-> FALSE, record |-> rec]

DecodePanicked == [panic |-> TRUE, record |-> None]

\* the test_num of a record as a number
U32ToNat(x) == x[1] * Half + x[2]

\* From<&RawRecord> for TSR
TSR_from(record) ==
    LET r == ReadFields(<<"U1", "U1", "C1", "U4", "U4", "U4", "U4", "Cn", "Cn",
                          "Cn", "U1", "R4", "R4", "R4", "R4", "R4">>,
                        record.contents)
    IN  IF r.ok
        THEN Decoded([kind |-> "TSR", head_num |-> r.x[1], site_num |-> r.x[2],
                      test_typ |-> r.x[3], test_num |-> U32ToNat(r.x[4]),
                      exec_cnt |-> r.x[5], test_nam |-> r.x[8],
                      seq_name |-> r.x[9], test_lbl |-> r.x[10],
                      test_tim |-> r.x[12]])
        ELSE DecodePanicked

\* From<&RawRecord> for PIR: contents[0] and contents[1]
PIR_from(record) ==
    LET contents == record.contents IN
    IF Len(contents) >= 2
    THEN Decoded([kind |-> "PIR", head_num |-> contents[1],
                  site_num |-> contents[2]])
    ELSE DecodePanicked

\* From<&RawRecord> for PRR
PRR_from(record) ==
    LET r == ReadFields(<<"U1", "U1", "U1", "U2", "U2", "U2", "I2", "I2", "U4",
                          "Cn", "Cn", "Bn">>, record.contents)
    IN  IF r.ok
        THEN Decoded([kind |-> "PRR", head_num |-> r.x[1], site_num |-> r.x[2],
                      hard_bin |-> r.x[5], soft_bin |-> r.x[6],
                      x_coord |-> r.x[7], y_coord |-> r.x[8],
                      part_id |-> r.x[10], part_txt |-> r.x[11]])
        ELSE DecodePanicked

\* the record types resolve() has an arm for
Resolvable ==
    {"MIR", "SDR", "TSR", "SBR", "HBR", "PCR", "MRR", "PIR", "PRR", "WIR",
     "WRR", "PTR", "FTR", "MPR", "PMR"}

\* mutant: a record of a type without a decoder is decoded as a part start
RawRecord_resolve_DecodesAll(self) ==
    CASE self.rtype = "TSR" -> TSR_from(self)
      [] self.rtype = "PIR" -> PIR_from(self)
      [] self.rtype = "PRR" -> PRR_from(self)
      [] self.rtype \in Resolvable \ {"TSR", "PIR", "PRR"} ->
           Decoded([kind |-> self.rtype, contents |-> self.contents])
      [] OTHER -> PIR_from(self)

\* RawRecord::resolve: the decoded record, None for a type without a decoder,
\* or the panic of the decoder.  The decoders of the types other than TSR,
\* PIR and PRR are not modelled: their records are kept undecoded.
RawRecord_resolve(self) ==
    CASE self.rtype = "TSR" -> TSR_from(self)
      [] self.rtype = "PIR" -> PIR_from(self)
      [] self.rtype = "PRR" -> PRR_from(self)
      [] self.rtype \in Resolvable \ {"TSR", "PIR", "PRR"} ->
           Decoded([kind |-> self.rtype, contents |-> self.contents])
      [] OTHER -> Decoded(None)

DecodePanic == "decoder panicked"

\* the body of the record loop of FullTestInformation::from_fname
FullTestInformation_from_fname_body(test_infos, record) ==
    LET r == RawRecord_resolve(record) IN
    IF r.panic
    THEN [panic |-> DecodePanic, test_infos |-> test_infos]
    ELSE [panic |-> "none",
          test_infos |-> IF r.record # None
                         THEN FullTestInformation_from_fname_step(test_infos,
                                                                  r.record)
                         ELSE test_infos]

\* mutant: the driver does not dispatch the functional results
TestData_from_fname_step_WithoutFTR(self, rec) ==
    CASE rec.kind = "WIR" -> Ok(new_wafer(self, rec))
      [] rec.kind = "PIR" -> new_part(self, rec)
      [] rec.kind = "PTR" -> add_data_ptr(self, rec)
      [] rec.kind = "MPR" -> add_data_mpr(self, rec)
      [] rec.kind = "PRR" -> finish_part(self, rec)
      [] rec.kind = "WRR" -> Ok(close_wafer(self))
      [] OTHER            -> Ok(self)

\* the chain of `if let` of TestData::from_fname on a resolved record
TestData_from_fname_step(self, rec) ==
    CASE rec.kind = "WIR" -> Ok(new_wafer(self, rec))
      [] rec.kind = "PIR" -> new_part(self, rec)
      [] rec.kind = "PTR" -> add_data_ptr(self, rec)
      [] rec.kind = "FTR" -> add_data_ftr(self, rec)
      [] rec.kind = "MPR" -> add_data_mpr(self, rec)
      [] rec.kind = "PRR" -> finish_part(self, rec)
      [] rec.kind = "WRR" -> Ok(close_wafer(self))
      [] OTHER            -> Ok(self)

\* the body of the record loop of TestData::from_fname
TestData_from_fname_body(self, record) ==
    LET r == RawRecord_resolve(record) IN
    IF r.panic
    THEN Panicked(DecodePanic, self)
    ELSE IF r.record # None
         THEN TestData_from_fname_step(self, r.record)
         ELSE Ok(self)

\* the records the sources are made of, header and contents
FARBytes == <<2, 0, 0, 10, 2, 4>>

\* (5, 30) is no record type
InvalidBytes == <<1, 0, 5, 30, 9>>

\* test 1 of head 1, site 1, parametric, executed once, named "n"
TSRBytes ==
    <<44, 0, 10, 30>> \o <<1, 1, 80>> \o <<1, 0, 0, 0>> \o <<1, 0, 0, 0>>
      \o <<0, 0, 0, 0>> \o <<0, 0, 0, 0>> \o <<1, 110>> \o <<0>> \o <<0>>
      \o <<0>> \o [i \in 1 .. 20 |-> 0]

\* test 2 of head 1, site 1, functional
TSR2Bytes ==
    <<44, 0, 10, 30>> \o <<1, 1, 70>> \o <<2, 0, 0, 0>> \o <<1, 0, 0, 0>>
      \o <<0, 0, 0, 0>> \o <<0, 0, 0, 0>> \o <<1, 110>> \o <<0>> \o <<0>>
      \o <<0>> \o [i \in 1 .. 20 |-> 0]

PIRBytes == <<2, 0, 5, 10, 1, 1>>

\* the part start of site 2
PIR2Bytes == <<2, 0, 5, 10, 1, 2>>

\* a part start with one byte of contents
ShortPIRBytes == <<1, 0, 5, 10, 1>>

\* head 1, site 1, hard_bin 5, soft_bin 2, x -7, y 6, part_id "A"
PRRBytes ==
    <<21, 0, 5, 20>> \o <<1, 1, 0>> \o <<1, 0>> \o <<5, 0>> \o <<2, 0>>
      \o <<249, 255>> \o <<6, 0>> \o <<0, 0, 0, 0>> \o <<1, 65>> \o <<0>>
      \o <<0>>

\* a part end whose part_id announces nine bytes and has one
InconsistentPRRBytes ==
    <<19, 0, 5, 20>> \o <<1, 1, 0>> \o <<1, 0>> \o <<5, 0>> \o <<2, 0>>
      \o <<249, 255>> \o <<6, 0>> \o <<0, 0, 0, 0>> \o <<9, 65>>

\* head 1, site 2, hard_bin 1, soft_bin 1, x 3, y 4, part_id "B"
PRR2Bytes ==
    <<21, 0, 5, 20>> \o <<1, 2, 0>> \o <<1, 0>> \o <<1, 0>> \o <<1, 0>>
      \o <<3, 0>> \o <<4, 0>> \o <<0, 0, 0, 0>> \o <<1, 66>> \o <<0>>
      \o <<0>>

RecordBytes ==
    {FARBytes, InvalidBytes, TSRBytes, TSR2Bytes, PIRBytes, PIR2Bytes,
     ShortPIRBytes, PRRBytes, PRR2Bytes, InconsistentPRRBytes}

RECURSIVE Concat(_)
Concat(seqs) ==
    IF seqs = << >> THEN << >> ELSE Head(seqs) \o Concat(Tail(seqs))

\* the sources: up to MaxChunks records one after the other
ChunkSources ==
    { Concat(c) : c \in UNION { [1 .. n -> RecordBytes] : n \in 0 .. MaxChunks } }

\* the state when TestData::from_fname is called on a source
ResolveInit ==
    \E source \in ChunkSources :
      /\ records = [iter |-> Records_new(source), yielded |-> << >>,
                    ended |-> FALSE]
      /\ pass1 = [test_info |-> FullTestInformation_new,
                  merged_test_info |-> << >>, order |-> << >>, seen |-> {}]
      /\ phase = "pass1"
      /\ n_records = 0
      /\ panic = "none"
      /\ test_data = None
      /\ wafer_hist = ""
      /\ temp_hist = << >>
      /\ data_hist = << >>
      /\ stdf = None

\* the reader after a call of next()
Advanced(out) ==
    [iter    |-> out.self,
     yielded |-> IF out.item # None
                 THEN Append(records.yielded, out.item)
                 ELSE records.yielded,
     ended   |-> out.item = None]

\* the loop of pass 1 calls next() and resolves the record
resolve_pass1_next ==
    /\ phase = "pass1"
    /\ panic = "none"
    /\ ~ records.ended
    /\ LET out == Records_next(records.iter) IN
       /\ records' = Advanced(out)
       /\ IF out.item # None
          THEN LET body == FullTestInformation_from_fname_body(pass1.test_info,
                                                               out.item)
               IN  /\ pass1' = [pass1 EXCEPT !.test_info = body.test_infos]
                   /\ panic' = body.panic
          ELSE UNCHANGED <<pass1, panic>>
    /\ UNCHANGED <<test_data, phase, n_records, wafer_hist, temp_hist,
                   data_hist, stdf>>

\* pass 1 returned: TestData::new, and the source is opened again
resolve_TestData_new ==
    /\ phase = "pass1"
    /\ panic = "none"
    /\ records.ended
    /\ \E order \in IterationOrders(pass1.test_info) :
         /\ test_data' = TestData_new(pass1.test_info, order)
         /\ pass1' = [pass1 EXCEPT !.order = order]
    /\ records' = [iter |-> Records_new(records.iter.source),
                   yielded |-> << >>, ended |-> FALSE]
    /\ phase' = "pass2"
    /\ UNCHANGED <<n_records, panic, wafer_hist, temp_hist, data_hist, stdf>>

\* the loop of pass 2 calls next() and resolves the record
resolve_pass2_next ==
    /\ phase = "pass2"
    /\ panic = "none"
    /\ ~ records.ended
    /\ LET out == Records_next(records.iter) IN
       /\ records' = Advanced(out)
       /\ IF out.item # None
          THEN LET body == TestData_from_fname_body(test_data, out.item)
               IN  /\ test_data' = body.self
                   /\ panic' = body.panic
          ELSE UNCHANGED <<test_data, panic>>
    /\ UNCHANGED <<phase, n_records, wafer_hist, temp_hist, data_hist, pass1,
                   stdf>>

\* the loop of pass 2 ended: the rows are normalized and returned
resolve_end ==
    /\ phase = "pass2"
    /\ panic = "none"
    /\ records.ended
    /\ test_data' = normalize_multipin_results(test_data)
    /\ phase' = "done"
    /\ UNCHANGED <<n_records, panic, wafer_hist, temp_hist, data_hist, pass1,
                   stdf, records>>

ResolveNext ==
    \/ resolve_pass1_next
    \/ resolve_TestData_new
    \/ resolve_pass2_next
    \/ resolve_end

ResolveSpec == ResolveInit /\ [][ResolveNext]_vars

(***************************************************************************)
(* normalize_multipin_results at the end of streams of whole parts: every  *)
(* part is opened, receives a multi-pin record for some of the tests, and  *)
(* is closed.                                                              *)
(***************************************************************************)
\* what a part receives: for every test a (rtn_rslt, rtn_indx) pair, or << >>
\* for no record
PartWrites == [Tests -> MPRPayloads \cup {<< >>}]

\* the records of a part of head 1, site 1
PartStream(w) ==
    LET mpr(t) == IF w[t] = << >>
                  THEN << >>
                  ELSE << [kind |-> "MPR", test_num |-> t, head_num |-> 1,
                           site_num |-> 1, rtn_rslt |-> w[t][1],
                           rtn_indx |-> w[t][2]] >>
    IN  << [kind |-> "PIR", head_num |-> 1, site_num |-> 1] >>
          \o mpr(1) \o mpr(2)
          \o << CHOOSE prr \in PRRs : prr.site_num = 1 >>

\* the record loop of TestData::from_fname over a stream
RECURSIVE TestData_from_fname_loop(_, _)
TestData_from_fname_loop(self, stream) ==
    IF stream = << >>
    THEN Ok(self)
    ELSE LET out == TestData_from_fname_step(self, Head(stream)) IN
         IF out.panic # "none"
         THEN out
         ELSE TestData_from_fname_loop(out.self, Tail(stream))

\* the state when the record loop has read a stream of up to MaxParts parts,
\* pass 1 having read multi-pin synopses of the tests
NormalizeInit ==
    \E synopses \in [1 .. 2 -> { tsr \in TSRs : tsr.test_typ = "M" }] :
    \E parts \in UNION { [1 .. n -> PartWrites] : n \in 0 .. MaxParts } :
      LET test_infos == FullTestInformation_from_fname(synopses)
          stream == Concat([i \in 1 .. Len(parts) |-> PartStream(parts[i])])
      IN
      \E order \in IterationOrders(test_infos) :
        LET out == TestData_from_fname_loop(TestData_new(test_infos, order),
                                            stream)
        IN  /\ test_data = out.self
            /\ panic = out.panic
            /\ phase = "pass2"
            /\ n_records = Len(stream)
            /\ wafer_hist = ""
            /\ temp_hist = << >>
            /\ data_hist = << >>
            /\ pass1 = Pass1Moved
            /\ stdf = None
            /\ records = None

NormalizeNext == from_fname_end

NormalizeSpec == NormalizeInit /\ [][NormalizeNext]_vars

(***************************************************************************)
(* Properties of the row assembly.  The methods are operators of the       *)
(* TestData value, so a property of a method is stated at every reachable  *)
(* state of the record loop and for every record the loop may read next.   *)
(***************************************************************************)
KeyOf(rec) == <<rec.head_num, rec.site_num>>

IsOpen(key) == key \in DOMAIN test_data.temp_rows

\* the dispatch of a result record in the record loop
add_data(self, rec) ==
    CASE rec.kind = "PTR" -> add_data_ptr(self, rec)
      [] rec.kind = "FTR" -> add_data_ftr(self, rec)
      [] rec.kind = "MPR" -> add_data_mpr(self, rec)

ResultRecords == PTRs \cup FTRs \cup MPRs

AlreadyOpen == "opening a specific head_num/site_num before closing the previous one!"

AddNotOpen == "trying to add data to a head_num/site_num that is not open!"

CloseNotOpen == "trying to close out a head_num/site_num that is not open!"

UnknownTestNum(kind) == "found " \o kind \o " with unknown test_num!"

\* C1: a part-start for a key that has an open row panics and leaves the
\* TestData value as it was: the open row is neither replaced nor doubled, no
\* row is finished.  The open table holds one row per key, the row of that key.
C1_SecondPartStartIsFatal ==
    Running =>
      /\ \A key \in DOMAIN test_data.temp_rows :
           KeyOf(test_data.temp_rows[key]) = key
      /\ \A pir \in PIRs :
           IsOpen(KeyOf(pir)) =>
             LET out == new_part(test_data, pir) IN
             /\ out.panic = AlreadyOpen
             /\ out.self.temp_rows = test_data.temp_rows
             /\ out.self.data = test_data.data

\* the run ended in the panic of new_part while rows were open
C1_Witness ==
    /\ panic = AlreadyOpen
    /\ DOMAIN test_data.temp_rows = {<<1, 1>>, <<1, 2>>}

\* C2: a part-end for a key that has no open row panics; no row is appended
\* to the finished rows and the open table is as it was.
C2_PartEndWithoutOpenRowIsFatal ==
    Running =>
      \A prr \in PRRs :
        ~IsOpen(KeyOf(prr)) =>
          LET out == finish_part(test_data, prr) IN
          /\ out.panic = CloseNotOpen
          /\ out.self.data = test_data.data
          /\ out.self.temp_rows = test_data.temp_rows

\* the run ended in the panic of finish_part, after a part of the same site
\* had been finished and while the other site was open
C2_Witness ==
    /\ panic = CloseNotOpen
    /\ Len(test_data.data) = 1
    /\ DOMAIN test_data.temp_rows = {<<1, 2>>}

\* C3: a PTR, FTR or MPR for a key that has no open row panics; the open table
\* and the finished rows are as they were.
C3_ResultWithoutOpenRowIsFatal ==
    Running =>
      \A rec \in ResultRecords :
        ~IsOpen(KeyOf(rec)) =>
          LET out == add_data(test_data, rec) IN
          /\ out.panic = AddNotOpen
          /\ out.self.temp_rows = test_data.temp_rows
          /\ out.self.data = test_data.data

\* the run ended in the panic of an add_data method while one row was finished
\* and another site was open
C3_Witness ==
    /\ panic = AddNotOpen
    /\ Len(test_data.data) = 1
    /\ DOMAIN test_data.temp_rows = {<<1, 2>>}

\* the test numbers that occurred in a record of pass 1
Pass1Tests == { k[1] : k \in DOMAIN test_data.full_test_information }

\* C4: a result record for an open key whose test_num occurred in no record
\* of pass 1 panics with the unknown-test_num message of its kind; no result
\* is written: the open table and the finished rows are as they were.
C4_UnknownTestNumIsFatal ==
    Running =>
      \A rec \in ResultRecords :
        (IsOpen(KeyOf(rec)) /\ rec.test_num \notin Pass1Tests) =>
          LET out == add_data(test_data, rec) IN
          /\ out.panic = UnknownTestNum(rec.kind)
          /\ out.self.temp_rows = test_data.temp_rows
          /\ out.self.data = test_data.data

\* the run ended in the unknown-test_num panic of add_data_ptr although the
\* only test of pass 1 has a column: the PTR was for the test pass 1 never saw
C4_Witness ==
    /\ panic = UnknownTestNum("PTR")
    /\ Pass1Tests = {1}
    /\ DOMAIN test_data.index_lookup = {1}
    /\ test_data.temp_rows # << >>

\* C5: a part-end for an open key returns; the key leaves the open table and
\* no other key does; the finished rows grow by one row at their end, the
\* open row with part_id, part_txt, x_coord, y_coord, sbin and hbin of the
\* record and with its results, wafer_id, head_num and site_num as they were;
\* a part-start for the same key then succeeds.
C5_PartEndFinishesTheOpenRow ==
    Running =>
      \A prr \in PRRs :
        IsOpen(KeyOf(prr)) =>
          LET key == KeyOf(prr)
              old == test_data.temp_rows[key]
              out == finish_part(test_data, prr)
              row == out.self.data[Len(out.self.data)]
          IN
          /\ out.panic = "none"
          /\ DOMAIN out.self.temp_rows = DOMAIN test_data.temp_rows \ {key}
          /\ \A k \in DOMAIN out.self.temp_rows :
               out.self.temp_rows[k] = test_data.temp_rows[k]
          /\ Len(out.self.data) = Len(test_data.data) + 1
          /\ SubSeq(out.self.data, 1, Len(test_data.data)) = test_data.data
          /\ row.part_id = prr.part_id
          /\ row.part_txt = prr.part_txt
          /\ row.x_coord = prr.x_coord
          /\ row.y_coord = prr.y_coord
          /\ row.sbin = prr.soft_bin
          /\ row.hbin = prr.hard_bin
          /\ row.results_parametric = old.results_parametric
          /\ row.results_functional = old.results_functional
          /\ row.results_multi_pin = old.results_multi_pin
          /\ row.wafer_id = old.wafer_id
          /\ row.head_num = old.head_num
          /\ row.site_num = old.site_num
          /\ \A pir \in PIRs :
               KeyOf(pir) = key =>
                 LET again == new_part(out.self, pir) IN
                 /\ again.panic = "none"
                 /\ key \in DOMAIN again.self.temp_rows
                 /\ again.self.data = out.self.data

\* a row with a measured value was finished with the values of the part-end
\* record, and its key is open again
C5_Witness ==
    /\ panic = "none"
    /\ \E i \in DOMAIN test_data.data :
         LET row == test_data.data[i] IN
         /\ IsOpen(KeyOf(row))
         /\ row.part_id = "P1"
         /\ row.sbin = 2
         /\ row.hbin = 5
         /\ \E j \in DOMAIN row.results_parametric :
              row.results_parametric[j] # NaN

\* the merged tests of a category
TestsOfType(type) ==
    { t \in DOMAIN test_data.test_information :
        test_data.test_information[t].test_type = type }

\* the rows of the TestData value, open and finished
AllRows ==
    { test_data.temp_rows[k] : k \in DOMAIN test_data.temp_rows }
      \cup { test_data.data[i] : i \in DOMAIN test_data.data }

\* the row holds the default in the slot the layout gives to test t
HoldsDefault(row, t) ==
    LET type == test_data.test_information[t].test_type
        slot == test_data.index_lookup[t] + 1
    IN  CASE type = "P" -> row.results_parametric[slot] = NaN
          [] type = "F" -> row.results_functional[slot] = FALSE
          [] type = "M" -> row.results_multi_pin[slot] = << >>
          [] OTHER -> TRUE

\* C6: the row new_part creates on a closed key has NaN in every parametric
\* slot, false in every functional slot, the empty sequence in every
\* multi-value slot, coordinates (-5000, -5000), both bins 0 and the head and
\* site of the record; and a finished row holds the default in the slot of
\* every test for which no result record arrived while the row was open.
C6_NewRowHoldsDefaults ==
    phase = "pass2" =>
      /\ Running =>
           \A pir \in PIRs :
             ~IsOpen(KeyOf(pir)) =>
               LET out == new_part(test_data, pir)
                   row == out.self.temp_rows[KeyOf(pir)]
               IN
               /\ out.panic = "none"
               /\ \A i \in DOMAIN row.results_parametric :
                    row.results_parametric[i] = NaN
               /\ \A i \in DOMAIN row.results_functional :
                    row.results_functional[i] = FALSE
               /\ \A i \in DOMAIN row.results_multi_pin :
                    row.results_multi_pin[i] = << >>
               /\ row.x_coord = -5000
               /\ row.y_coord = -5000
               /\ row.sbin = 0
               /\ row.hbin = 0
               /\ row.head_num = pir.head_num
               /\ row.site_num = pir.site_num
      /\ \A i \in DOMAIN test_data.data :
           \A t \in DOMAIN test_data.test_information :
             (\A kind \in {"PTR", "FTR", "MPR"} :
                <<kind, t>> \notin data_hist[i].arrived)
               => HoldsDefault(test_data.data[i], t)

\* C7: every row, open or finished, has as many parametric results as there
\* are merged tests of type P, as many functional results as of type F and as
\* many multi-value results as of type M.
C7_RowsAreSizedByTheLayout ==
    \A row \in AllRows :
      /\ Len(row.results_parametric) = Cardinality(TestsOfType("P"))
      /\ Len(row.results_functional) = Cardinality(TestsOfType("F"))
      /\ Len(row.results_multi_pin) = Cardinality(TestsOfType("M"))

\* an open and a finished row under a layout of one parametric and one
\* functional test
C7_Witness ==
    /\ Cardinality(TestsOfType("P")) = 1
    /\ Cardinality(TestsOfType("F")) = 1
    /\ test_data.temp_rows # << >>
    /\ test_data.data # << >>

\* C8: when several PTRs for one parametric test arrived while a row was open,
\* the finished row holds the result of the last of them in the parametric
\* slot of that test.
C8_LastParametricResultWins ==
    phase = "pass2" =>
      \A i \in DOMAIN test_data.data :
        \A t \in data_hist[i].ptr_many \cap TestsOfType("P") :
          test_data.data[i].results_parametric[test_data.index_lookup[t] + 1]
            = data_hist[i].ptr_last[t]

\* C9: add_data_ftr for an open row and a functional test returns, and the
\* functional slot of that test then is TRUE if bit 7 of test_flg is clear
\* (test_flg below 0x80) and FALSE if it is set, whatever the other bits are.
C9_PassIsBit7Clear ==
    Running =>
      \A ftr \in FTRs :
        (IsOpen(KeyOf(ftr)) /\ ftr.test_num \in TestsOfType("F")) =>
          LET out == add_data_ftr(test_data, ftr)
              row == out.self.temp_rows[KeyOf(ftr)]
              slot == test_data.index_lookup[ftr.test_num] + 1
          IN  /\ out.panic = "none"
              /\ row.results_functional[slot] = (ftr.test_flg < 128)

\* an FTR was written to an open row of a layout with a functional test, and
\* the slot of that test holds TRUE
C9_Witness ==
    /\ panic = "none"
    /\ \E key \in DOMAIN test_data.temp_rows :
         \E t \in TestsOfType("F") :
           /\ <<"FTR", t>> \in temp_hist[key].arrived
           /\ test_data.temp_rows[key].results_functional[
                  test_data.index_lookup[t] + 1]

\* C10: the row new_part creates carries the id of the wafer the stream is in,
\* and "" before the first wafer-start and after a wafer-end; so does every
\* row that is open.
C10_RowCarriesTheWaferOfItsOpening ==
    Running =>
      /\ \A pir \in PIRs :
           ~IsOpen(KeyOf(pir)) =>
             new_part(test_data, pir).self.temp_rows[KeyOf(pir)].wafer_id
               = wafer_hist
      /\ \A key \in DOMAIN test_data.temp_rows :
           test_data.temp_rows[key].wafer_id = temp_hist[key].opened_in

\* one row was opened in wafer W1 and one after its wafer-end
C10_Witness ==
    /\ panic = "none"
    /\ test_data.wir = None
    /\ \E k1, k2 \in DOMAIN test_data.temp_rows :
         /\ test_data.temp_rows[k1].wafer_id = "W1"
         /\ test_data.temp_rows[k2].wafer_id = ""

\* C11: wafer_id of a row is the id of the wafer the stream was in when the
\* row was opened, for every open and every finished row and whatever
\* arrived since; new_wafer and close_wafer change no row, finish_part
\* appends the row with the wafer_id it had and changes no finished row, and
\* neither does normalize_multipin_results.
C11_WaferIdIsFixedAtOpening ==
    /\ \A key \in DOMAIN test_data.temp_rows :
         test_data.temp_rows[key].wafer_id = temp_hist[key].opened_in
    /\ \A i \in DOMAIN test_data.data :
         test_data.data[i].wafer_id = data_hist[i].opened_in
    /\ Running =>
         /\ \A w \in WIRs :
              /\ new_wafer(test_data, w).temp_rows = test_data.temp_rows
              /\ new_wafer(test_data, w).data = test_data.data
         /\ close_wafer(test_data).temp_rows = test_data.temp_rows
         /\ close_wafer(test_data).data = test_data.data
         /\ \A prr \in PRRs :
              IsOpen(KeyOf(prr)) =>
                LET out == finish_part(test_data, prr).self IN
                /\ out.data[Len(out.data)].wafer_id
                     = test_data.temp_rows[KeyOf(prr)].wafer_id
                /\ \A i \in DOMAIN test_data.data :
                     out.data[i].wafer_id = test_data.data[i].wafer_id

\* a wafer-start arrived while a row opened outside a wafer was open and after
\* another such row was finished: both rows still have the empty wafer_id
C11_Witness ==
    /\ panic = "none"
    /\ test_data.wir # None
    /\ \E key \in DOMAIN test_data.temp_rows :
         test_data.temp_rows[key].wafer_id = ""
    /\ \E i \in DOMAIN test_data.data : test_data.data[i].wafer_id = ""

\* the largest length of the multi-value vectors the finished rows of self
\* have in slot i
MaxWidth(self, i) ==
    LET L == { Len(self.data[r].results_multi_pin[i]) : r \in DOMAIN self.data }
    IN  CHOOSE m \in L : \A x \in L : x <= m

\* C12: normalize_multipin_results gives the vector of every finished row in
\* multi-value slot i the largest length a finished row had in slot i; the
\* values a vector had are kept and NaN follows them, so an empty vector
\* becomes all NaN; nothing else of a row changes.  After it returned, the
\* finished rows have the same length in every slot.
C12_FinalizePadsToTheWidestRow ==
    /\ Running =>
         LET out == normalize_multipin_results(test_data) IN
         /\ DOMAIN out.data = DOMAIN test_data.data
         /\ out.temp_rows = test_data.temp_rows
         /\ \A r \in DOMAIN test_data.data :
              LET old == test_data.data[r]
                  new == out.data[r]
              IN
              /\ [new EXCEPT !.results_multi_pin = old.results_multi_pin] = old
              /\ DOMAIN new.results_multi_pin = DOMAIN old.results_multi_pin
              /\ \A i \in DOMAIN old.results_multi_pin :
                   /\ Len(new.results_multi_pin[i]) = MaxWidth(test_data, i)
                   /\ \A j \in 1 .. Len(new.results_multi_pin[i]) :
                        new.results_multi_pin[i][j] =
                          IF j <= Len(old.results_multi_pin[i])
                          THEN old.results_multi_pin[i][j]
                          ELSE NaN
    /\ (phase = "done" /\ panic = "none") =>
         \A r1, r2 \in DOMAIN test_data.data :
           \A i \in DOMAIN test_data.data[r1].results_multi_pin :
             Len(test_data.data[r1].results_multi_pin[i])
               = Len(test_data.data[r2].results_multi_pin[i])

\* the run returned two rows: one had two values in a multi-value slot, the
\* other had none there and now has two NaN
C12_Witness ==
    /\ phase = "done"
    /\ \E r1, r2 \in DOMAIN test_data.data :
         \E i \in DOMAIN test_data.data[r1].results_multi_pin :
           /\ test_data.data[r1].results_multi_pin[i] = <<"2.5", "1.5">>
           /\ test_data.data[r2].results_multi_pin[i] = <<NaN, NaN>>

\* C13: add_data_mpr sets the entry of mpr_index_lookup for the record's
\* test_num to the record's rtn_indx if there is no entry, and leaves the map
\* as it is if there is one; no other method changes the map.
C13_PinRegistryKeepsTheFirst ==
    Running =>
      /\ \A mpr \in MPRs :
           LET old == test_data.mpr_index_lookup
               new == add_data_mpr(test_data, mpr).self.mpr_index_lookup
           IN  IF mpr.test_num \in DOMAIN old
               THEN new = old
               ELSE /\ DOMAIN new = DOMAIN old \cup {mpr.test_num}
                    /\ new[mpr.test_num] = mpr.rtn_indx
                    /\ \A t \in DOMAIN old : new[t] = old[t]
      /\ \A pir \in PIRs :
           new_part(test_data, pir).self.mpr_index_lookup
             = test_data.mpr_index_lookup
      /\ \A ptr \in PTRs :
           add_data_ptr(test_data, ptr).self.mpr_index_lookup
             = test_data.mpr_index_lookup
      /\ \A ftr \in FTRs :
           add_data_ftr(test_data, ftr).self.mpr_index_lookup
             = test_data.mpr_index_lookup
      /\ \A prr \in PRRs :
           finish_part(test_data, prr).self.mpr_index_lookup
             = test_data.mpr_index_lookup
      /\ \A w \in WIRs :
           new_wafer(test_data, w).mpr_index_lookup = test_data.mpr_index_lookup
      /\ close_wafer(test_data).mpr_index_lookup = test_data.mpr_index_lookup
      /\ normalize_multipin_results(test_data).mpr_index_lookup
           = test_data.mpr_index_lookup

\* the registry holds the pins <<7>> of the first MPR of a multi-value test
\* while an open row holds the two values of a later MPR with pins <<8, 9>>
C13_Witness ==
    /\ panic = "none"
    /\ \E t \in TestsOfType("M") :
         /\ t \in DOMAIN test_data.mpr_index_lookup
         /\ test_data.mpr_index_lookup[t] = <<7>>
         /\ \E key \in DOMAIN test_data.temp_rows :
              test_data.temp_rows[key].results_multi_pin[
                  test_data.index_lookup[t] + 1] = <<"2.5", "1.5">>

(***************************************************************************)
(* Properties of pass 1, merge() and the column layout.                    *)
(***************************************************************************)
\* TestData::new returned
LaidOut == phase = "pass2" /\ panic = "none"

\* the count and the reverse map of a partition
PartitionCount(type) ==
    CASE type = "P" -> test_data.n_para
      [] type = "F" -> test_data.n_func
      [] type = "M" -> test_data.n_mult

ReverseLookup(type) ==
    CASE type = "P" -> test_data.reverse_lookup_para
      [] type = "F" -> test_data.reverse_lookup_func
      [] type = "M" -> test_data.reverse_lookup_mult

\* C14: in each of the partitions P, F and M the slots of the merged tests of
\* that type are pairwise different and are exactly 0 .. N - 1, N the number
\* of these tests; the partition's count is N and its reverse map is the
\* inverse of index_lookup on these tests.
C14_PartitionIsABijection ==
    LaidOut =>
      \A type \in {"P", "F", "M"} :
        LET T == TestsOfType(type)
            N == Cardinality(T)
            rev == ReverseLookup(type)
        IN
        /\ T \subseteq DOMAIN test_data.index_lookup
        /\ \A t, u \in T :
             test_data.index_lookup[t] = test_data.index_lookup[u] => t = u
        /\ { test_data.index_lookup[t] : t \in T } = 0 .. (N - 1)
        /\ PartitionCount(type) = N
        /\ DOMAIN rev = 0 .. (N - 1)
        /\ \A t \in T : rev[test_data.index_lookup[t]] = t
        /\ \A i \in DOMAIN rev :
             rev[i] \in T /\ test_data.index_lookup[rev[i]] = i

\* a layout of two parametric tests and one functional test
C14_Witness ==
    /\ LaidOut
    /\ Cardinality(TestsOfType("P")) = 2
    /\ Cardinality(TestsOfType("F")) = 1

\* C15: the slot of a merged test of type P, F or M is the number of merged
\* tests of the same type with a smaller test_num.
C15_SlotsAscendWithTestNum ==
    LaidOut =>
      \A type \in {"P", "F", "M"} :
        \A t \in TestsOfType(type) :
          test_data.index_lookup[t] =
            Cardinality({ u \in TestsOfType(type) : u < t })

\* tests 1 and 3 are multi-value tests and test 2, between them, is not:
\* test 3 has slot 1
C15_Witness ==
    /\ LaidOut
    /\ TestsOfType("M") = {1, 3}
    /\ TestsOfType("P") = {2}
    /\ test_data.index_lookup[3] = 1

\* C16: a merged test of type S or Unknown has no entry in index_lookup and
\* in no reverse map, the three counts count the tests of type P, F and M
\* only, and the merged table has an entry for every test_num of the per-site
\* table.
C16_ScanAndUnknownGetNoSlot ==
    LaidOut =>
      /\ \A t \in TestsOfType("S") \cup TestsOfType("Unknown") :
           /\ t \notin DOMAIN test_data.index_lookup
           /\ \A type \in {"P", "F", "M"} :
                \A i \in DOMAIN ReverseLookup(type) : ReverseLookup(type)[i] # t
      /\ test_data.n_para = Cardinality(TestsOfType("P"))
      /\ test_data.n_func = Cardinality(TestsOfType("F"))
      /\ test_data.n_mult = Cardinality(TestsOfType("M"))
      /\ DOMAIN test_data.test_information =
           { k[1] : k \in DOMAIN test_data.full_test_information }

\* a scan test, a test seen in PTRs only and a parametric test were merged
C16_Witness ==
    /\ LaidOut
    /\ TestsOfType("S") # {}
    /\ TestsOfType("Unknown") # {}
    /\ DOMAIN test_data.index_lookup = TestsOfType("P")
    /\ TestsOfType("P") # {}

\* merge() visited every entry and is about to return
Merged == phase = "merge" /\ panic = "none" /\ Unvisited = {}

\* the sum of one half of the execution_count of the entries K of the table
RECURSIVE SumOfHalf(_, _, _)
SumOfHalf(table, K, h) ==
    IF K = {}
    THEN 0
    ELSE LET k == CHOOSE x \in K : TRUE
         IN  table[k].execution_count[h] + SumOfHalf(table, K \ {k}, h)

\* C17: merge() returns; the merged table has one entry per test_num of the
\* per-site table, and the execution_count of the entry is the sum of the
\* execution_count of the per-site entries of that test_num; no per-site
\* entry has head_num 255.
C17_MergedCountIsTheSum ==
    /\ panic # AddWithOverflow
    /\ Merged =>
         /\ \A k \in DOMAIN pass1.test_info : k[3] # 255
         /\ DOMAIN pass1.merged_test_info =
              { k[1] : k \in DOMAIN pass1.test_info }
         /\ \A t \in DOMAIN pass1.merged_test_info :
              LET K  == { k \in DOMAIN pass1.test_info : k[1] = t }
                  hi == SumOfHalf(pass1.test_info, K, 1)
                  lo == SumOfHalf(pass1.test_info, K, 2)
              IN  pass1.merged_test_info[t].execution_count
                    = <<hi + (lo \div Half), lo % Half>>

\* the TSRs of head_num other than 255 and the PTRs pass 1 read for test t
SynopsesOf(t) ==
    { s \in pass1.seen : s.kind = "TSR" /\ s.test_num = t /\ s.head_num # 255 }

ResultsOf(t) == { s \in pass1.seen : s.kind = "PTR" /\ s.test_num = t }

\* C18: when merge() returns, the merged entry of a test_num that pass 1 read
\* both a TSR and a PTR for has the category, test name, sequence name, label
\* and test time of a TSR of that test_num.
C18_IdentityIsTheSynopsis ==
    Merged =>
      \A t \in StreamTests :
        (SynopsesOf(t) # {} /\ ResultsOf(t) # {}) =>
          /\ t \in DOMAIN pass1.merged_test_info
          /\ LET mti == pass1.merged_test_info[t] IN
             /\ mti.test_type \in
                  { TestTypeOfChar(s.test_typ) : s \in SynopsesOf(t) }
             /\ mti.test_name = "nam"
             /\ mti.sequence_name = "seq"
             /\ mti.test_label = "lbl"
             /\ mti.test_time = "0.5"

\* the entry of test t that merge() visited first
FirstFolded(t) ==
    LET i == CHOOSE j \in DOMAIN pass1.order :
               /\ pass1.order[j][1] = t
               /\ \A l \in 1 .. (j - 1) : pass1.order[l][1] # t
    IN  pass1.test_info[pass1.order[i]]

\* C19: folding a per-site entry into a merged table that has an entry for
\* its test_num changes the execution_count of that entry and nothing else;
\* so every merged entry has the test_num, the category and the descriptive
\* fields of the first entry folded for its test_num.
C19_FoldChangesTheCountOnly ==
    (phase = "merge" /\ panic = "none") =>
      /\ \A key \in Unvisited :
           LET ti == pass1.test_info[key]
               old == pass1.merged_test_info
               new == FullMergedTestInformation_add_from_test_information(
                          old, ti)
           IN  ti.test_num \in DOMAIN old =>
                 /\ DOMAIN new = DOMAIN old
                 /\ \A t \in DOMAIN old :
                      [new[t] EXCEPT !.execution_count =
                                        old[t].execution_count] = old[t]
      /\ \A t \in DOMAIN pass1.merged_test_info :
           LET first == MergedTestInformation_new_from_test_information(
                            FirstFolded(t))
           IN  [pass1.merged_test_info[t] EXCEPT !.execution_count =
                                                   first.execution_count]
                 = first

\* merge() folded two entries of one test_num that differ in their category:
\* the merged entry has the category of the first
C19_Witness ==
    /\ phase = "merge"
    /\ panic = "none"
    /\ Len(pass1.order) = 2
    /\ pass1.order[1][1] = pass1.order[2][1]
    /\ pass1.test_info[pass1.order[1]].test_type = "F"
    /\ pass1.test_info[pass1.order[2]].test_type = "P"
    /\ pass1.merged_test_info[pass1.order[1][1]].test_type = "F"

\* the completion state of the entry of key in the per-site table
CompletionOf(table, key) ==
    IF key \in DOMAIN table THEN table[key].complete ELSE "absent"

\* pass 1 read a record of the kind with exactly this key
SeenFor(kind, key) ==
    \E s \in pass1.seen :
      /\ s.kind = kind
      /\ <<s.test_num, s.site_num, s.head_num>> = key

StreamKeys == StreamTests \X (Sites \cup {255}) \X {1, 255}

\* C20: a record of pass 1 moves the completion state of the entry of its own
\* key only, and only by: absent -> TSR on a TSR, absent -> PTR on a PTR,
\* TSR -> Complete on a PTR, PTR -> Complete on a TSR, or not at all; a TSR
\* of head_num 255 moves nothing.  So an entry is Complete exactly if a TSR
\* and a PTR of its key were read, TSR if only a TSR, PTR if only a PTR.
C20_CompletionFollowsTheSightings ==
    phase = "pass1" =>
      /\ \A rec \in StreamTSRs \cup StreamPTRs \cup StreamOthers :
           LET old == pass1.test_info
               new == FullTestInformation_from_fname_step(old, rec)
               own == <<rec.test_num, rec.site_num, rec.head_num>>
           IN  \A key \in StreamKeys :
                 LET before == CompletionOf(old, key)
                     after == CompletionOf(new, key)
                 IN  \/ after = before
                     \/ /\ key = own
                        /\ rec.head_num # 255
                        /\ <<before, rec.kind, after>> \in
                             { <<"absent", "TSR", "TSR">>,
                               <<"absent", "PTR", "PTR">>,
                               <<"TSR", "PTR", "Complete">>,
                               <<"PTR", "TSR", "Complete">> }
      /\ \A key \in StreamKeys :
           CompletionOf(pass1.test_info, key) =
             IF key[3] = 255 THEN "absent"
             ELSE CASE SeenFor("TSR", key) /\ SeenFor("PTR", key) -> "Complete"
                    [] SeenFor("TSR", key) /\ ~SeenFor("PTR", key) -> "TSR"
                    [] ~SeenFor("TSR", key) /\ SeenFor("PTR", key) -> "PTR"
                    [] OTHER -> "absent"

\* one entry is complete and another, of the same test on the other site, was
\* seen in a PTR only
C20_Witness ==
    /\ phase = "pass1"
    /\ CompletionOf(pass1.test_info, <<1, 1, 1>>) = "Complete"
    /\ CompletionOf(pass1.test_info, <<1, 2, 1>>) = "PTR"

\* C28: when the record loop of pass 2 has ended without a panic, no row is
\* left open: every row a part-start opened is among the finished rows.
C28_NoRowIsLeftOpen ==
    (phase = "done" /\ panic = "none") =>
      /\ DOMAIN test_data.temp_rows = {}
      /\ DOMAIN temp_hist = {}

\* the partition a result record of a kind writes to, and that partition's
\* results in a row
PartitionOf(kind) ==
    CASE kind = "PTR" -> "P"
      [] kind = "FTR" -> "F"
      [] kind = "MPR" -> "M"

PartitionResults(row, type) ==
    CASE type = "P" -> row.results_parametric
      [] type = "F" -> row.results_functional
      [] type = "M" -> row.results_multi_pin

\* C30: a result record that is written to the open row of its key leaves
\* every slot of its partition that the layout assigns to another test_num
\* as it was, whatever the merged category of the record's test_num is.
C30_ResultWritesItsOwnSlotOnly ==
    Running =>
      \A rec \in ResultRecords :
        IsOpen(KeyOf(rec)) =>
          LET out  == add_data(test_data, rec)
              type == PartitionOf(rec.kind)
          IN  out.panic = "none" =>
                \A i \in 0 .. PartitionCount(type) - 1 :
                  ReverseLookup(type)[i] # rec.test_num =>
                    PartitionResults(out.self.temp_rows[KeyOf(rec)], type)[i + 1]
                      = PartitionResults(test_data.temp_rows[KeyOf(rec)],
                                         type)[i + 1]

(***************************************************************************)
(* Properties of STDF::from_fname over one file.                           *)
(***************************************************************************)
\* the key of a synopsis or result record in the per-site table
TableKey(rec) == <<rec.test_num, rec.site_num, rec.head_num>>

\* the fields of an entry a synopsis record sets, and those a result record sets
SynopsisFields(e) ==
    <<e.test_type, e.execution_count, e.test_name, e.sequence_name,
      e.test_label, e.test_time>>

ResultFields(e) ==
    <<e.test_text, e.llm_scal, e.hlm_scal, e.res_scal, e.lo_spec, e.hi_spec,
      e.low_limit, e.high_limit, e.units>>

\* the positions, among the records pass 1 has read, of the records of the
\* given kind and key that the table takes in
SightingsOf(kind, key) ==
    { i \in 1 .. stdf.pos :
        /\ stdf.file[i].kind = kind
        /\ TableKey(stdf.file[i]) = key
        /\ ~ (kind = "TSR" /\ stdf.file[i].head_num = 255) }

FirstOf(I) == CHOOSE i \in I : \A j \in I : i <= j

\* C21: in pass 1, a synopsis record for a key whose entry is seen-only-synopsis
\* or complete, and a result record for a key whose entry is seen-only-result
\* or complete, leave the whole table as it is; so the synopsis fields of every
\* entry are those of the first synopsis record read for its key and the
\* result fields those of the first result record read for its key.
C21_ResightingIsIgnored ==
    phase = "pass1" =>
      /\ \A tsr \in FileTSRs :
           (/\ TableKey(tsr) \in DOMAIN pass1.test_info
            /\ pass1.test_info[TableKey(tsr)].complete \in {"TSR", "Complete"})
             => FullTestInformation_add_from_tsr(pass1.test_info, tsr)
                  = pass1.test_info
      /\ \A ptr \in FilePTRs :
           (/\ TableKey(ptr) \in DOMAIN pass1.test_info
            /\ pass1.test_info[TableKey(ptr)].complete \in {"PTR", "Complete"})
             => FullTestInformation_add_from_ptr(pass1.test_info, ptr)
                  = pass1.test_info
      /\ \A key \in DOMAIN pass1.test_info :
           LET e == pass1.test_info[key] IN
           /\ e.complete \in {"TSR", "Complete"} =>
                /\ SightingsOf("TSR", key) # {}
                /\ SynopsisFields(e) =
                     SynopsisFields(TestInformation_new_from_tsr(
                         stdf.file[FirstOf(SightingsOf("TSR", key))]))
           /\ e.complete \in {"PTR", "Complete"} =>
                /\ SightingsOf("PTR", key) # {}
                /\ ResultFields(e) =
                     ResultFields(TestInformation_new_from_ptr(
                         stdf.file[FirstOf(SightingsOf("PTR", key))]))

\* pass 1 has read two different synopsis records and two different result
\* records of one key
C21_Witness ==
    /\ phase = "pass1"
    /\ \E key \in DOMAIN pass1.test_info :
         /\ pass1.test_info[key].complete = "Complete"
         /\ \E i, j \in SightingsOf("TSR", key) : stdf.file[i] # stdf.file[j]
         /\ \E i, j \in SightingsOf("PTR", key) : stdf.file[i] # stdf.file[j]

\* synopsis records of head 255, of site 255 and of site 1
SummaryTSRs ==
    { [t EXCEPT !.head_num = 255, !.site_num = site] :
        t \in FileTSRs, site \in {1, 255} }

\* C22: add_from_tsr with a synopsis record of head_num 255 leaves the
\* per-site table as it is: no entry is created, none is changed or completed.
C22_SummarySynopsisIsSkipped ==
    phase = "pass1" =>
      \A tsr \in SummaryTSRs :
        FullTestInformation_add_from_tsr(pass1.test_info, tsr) = pass1.test_info

\* pass 1 has just read a synopsis record of head 255 whose key has an entry
\* that is seen-only-result
C22_Witness ==
    /\ phase = "pass1"
    /\ stdf.pos > 0
    /\ LET tsr == stdf.file[stdf.pos] IN
       /\ tsr.kind = "TSR"
       /\ tsr.head_num = 255
       /\ TableKey(tsr) \in DOMAIN pass1.test_info
       /\ pass1.test_info[TableKey(tsr)].complete = "PTR"

\* the per-site table, while pass 1 builds it and once TestData::new took it
PerSiteTable ==
    IF phase = "pass1" THEN pass1.test_info ELSE test_data.full_test_information

\* C23: whatever synopsis and result records pass 1 has read, the per-site
\* table has no key whose head_num is 255.
C23_NoKeyOfHead255 ==
    \A key \in DOMAIN PerSiteTable : key[3] # 255

\* pass 1 and merge() are over for the scenario file
ScenarioMerged ==
    /\ stdf.file = ScenarioFile
    /\ phase \in {"pass2", "done"}

\* C24 as stated: for the scenario file, the five records twice, pass 1 and
\* merge() yield exactly one merged test, test 100, with execution_count 2.
C24_ScenarioCountsTwo ==
    ScenarioMerged =>
      /\ DOMAIN test_data.test_information = {100}
      /\ test_data.test_information[100].test_num = 100
      /\ test_data.test_information[100].execution_count = U32(2)

\* C24, amended: for the scenario file, pass 1 and merge() yield exactly one
\* merged test, test 100, with execution_count 1: the second synopsis record
\* of the key (100, 1, 1) is seen again and adds nothing.
C24_ScenarioCountsOnce ==
    ScenarioMerged =>
      /\ DOMAIN test_data.test_information = {100}
      /\ test_data.test_information[100].test_num = 100
      /\ test_data.test_information[100].execution_count = U32(1)

\* TestData::new has merged the table of the scenario file
C24_Witness ==
    /\ ScenarioMerged
    /\ 100 \in DOMAIN test_data.test_information
    /\ DOMAIN test_data.full_test_information = {<<100, 1, 1>>}
    /\ test_data.full_test_information[<<100, 1, 1>>].complete = "Complete"

\* the positions of the records of a kind in the file
PositionsOf(kind) ==
    { i \in 1 .. Len(stdf.file) : stdf.file[i].kind = kind }

LastOf(I) == CHOOSE i \in I : \A j \in I : j <= i

\* C27: STDF::from_fname has no result before the file is exhausted; when it
\* returns, without a panic on the way, it returns an error exactly when the
\* file has no MIR, no MRR or no SDR record, and otherwise Ok with the last
\* MIR, the last MRR and the last SDR of the file.
C27_ErrorIffARequiredRecordIsMissing ==
    /\ phase \in {"pass1", "pass2"} => stdf.result = None
    /\ phase = "done" =>
         /\ stdf.pos = Len(stdf.file)
         /\ panic = "none"
         /\ stdf.result.kind \in {"Ok", "Err"}
         /\ stdf.result.kind = "Err" <=>
              \/ PositionsOf("MIR") = {}
              \/ PositionsOf("MRR") = {}
              \/ PositionsOf("SDR") = {}
         /\ stdf.result.kind = "Ok" =>
              /\ stdf.result.master_information =
                   MasterInformation_new(
                       stdf.file[LastOf(PositionsOf("MIR"))],
                       stdf.file[LastOf(PositionsOf("MRR"))])
              /\ stdf.result.site_information =
                   stdf.file[LastOf(PositionsOf("SDR"))]

\* a file with two different MIR records, an MRR and an SDR was read to its
\* end
C27_Witness ==
    /\ phase = "done"
    /\ stdf.result.kind = "Ok"
    /\ \E i, j \in PositionsOf("MIR") : stdf.file[i] # stdf.file[j]

\* the test numbers of the synopsis and result records of the file, which
\* pass 1 has read
TestsInPass1 ==
    { stdf.file[i].test_num : i \in PositionsOf("TSR") \cup PositionsOf("PTR") }

\* C29: pass 2 reads the file pass 1 has read; when a parametric result record
\* on an open key panics with the unknown-test_num message, its test_num is
\* in no synopsis and in no result record of the file.
C29_UnknownOnlyIfUnseenInPass1 ==
    (phase = "pass2" /\ panic = UnknownTestNum("PTR")) =>
      stdf.file[stdf.pos].test_num \notin TestsInPass1

(***************************************************************************)
(* Properties of the record reader.                                        *)
(***************************************************************************)
\* the record that lies whole in the source at byte p, if one does
WholeAt(source, p) ==
    IF p + 4 > Len(source)
    THEN None
    ELSE LET rec_len == source[p + 1] + 256 * source[p + 2] IN
         IF p + 4 + rec_len > Len(source)
         THEN None
         ELSE [header   |-> [rec_len |-> rec_len, rec_typ |-> source[p + 3],
                             rec_sub |-> source[p + 4]],
               contents |-> SubSeq(source, p + 5, p + 4 + rec_len)]

\* the longest run of whole records of the source from byte p on
RECURSIVE WholeRecords(_, _)
WholeRecords(source, p) ==
    LET w == WholeAt(source, p) IN
    IF w = None
    THEN << >>
    ELSE <<w>> \o WholeRecords(source, p + 4 + w.header.rec_len)

\* header and contents of the records yielded so far
Yielded ==
    [i \in 1 .. Len(records.yielded) |->
       [header   |-> records.yielded[i].header,
        contents |-> records.yielded[i].contents]]

\* C25: the reader yields, in order, the records that lie whole in the source,
\* up to the first header or contents cut short; there it ends, without a
\* panic and without yielding the part of a record.
C25_ReaderYieldsTheWholeRecords ==
    phase = "records" =>
      LET whole == WholeRecords(records.iter.source, 0) IN
      /\ panic = "none"
      /\ Len(Yielded) <= Len(whole)
      /\ Yielded = SubSeq(whole, 1, Len(Yielded))
      /\ records.ended => Yielded = whole
      /\ ~ records.ended => records.iter.pos <= Len(records.iter.source)

\* bytes of the source the yielded records take
RECURSIVE BytesOf(_)
BytesOf(recs) ==
    IF recs = << >>
    THEN 0
    ELSE 4 + Len(recs[Len(recs)].contents)
           + BytesOf(SubSeq(recs, 1, Len(recs) - 1))

\* the reader ended after one record, on a header whose rec_len overruns the
\* source
C25_Witness ==
    /\ phase = "records"
    /\ records.ended
    /\ Len(records.yielded) = 1
    /\ BytesOf(records.yielded) + 4 <= Len(records.iter.source)

\* the sum of 4 + rec_len over the first n records yielded
RECURSIVE LocationAfter(_)
LocationAfter(n) ==
    IF n = 0
    THEN 0
    ELSE 4 + records.yielded[n].header.rec_len + LocationAfter(n - 1)

\* C26: the offset of the k-th record yielded is its location in the source,
\* the sum of 4 + rec_len over the k - 1 records before it.
C26_OffsetIsTheLocation ==
    phase = "records" =>
      \A k \in 1 .. Len(records.yielded) :
        records.yielded[k].offset = LocationAfter(k - 1)

(***************************************************************************)
(* The column layout and the metadata tables of a TestData.                *)
(***************************************************************************)
\* the column layout and the three partition counts of a TestData
LayoutOf(self) ==
    [index_lookup        |-> self.index_lookup,
     n_para              |-> self.n_para,
     n_func              |-> self.n_func,
     n_mult              |-> self.n_mult,
     reverse_lookup_para |-> self.reverse_lookup_para,
     reverse_lookup_func |-> self.reverse_lookup_func,
     reverse_lookup_mult |-> self.reverse_lookup_mult]

\* the per-site and the merged table of a TestData
TablesOf(self) ==
    [full_test_information |-> self.full_test_information,
     test_information      |-> self.test_information]

(***************************************************************************)
(* Properties of a whole run of TestData::from_fname.                      *)
(***************************************************************************)
\* a step of a run: the step that ends the record loop is taken from a state
\* without a panic and is normalize_multipin_results on the rows as the last
\* record left them, and no step follows it
C32_Step ==
    /\ phase = "done" => UNCHANGED vars
    /\ phase # "done" /\ phase' = "done" =>
         /\ panic = "none"
         /\ panic' = "none"
         /\ test_data' = normalize_multipin_results(test_data)
    /\ phase' # "done" => phase' = phase

C33_DecodeFailureIsSkipped ==
    phase \in {"pass1", "pass2"} =>
      \A k \in 1 .. Len(records.yielded) :
        RawRecord_resolve(records.yielded[k]).panic => panic = "none"

\* the record next() yields next, None if there is none
NextItem == Records_next(records.iter).item

\* C34: a record whose type has no decoder, or whose (rec_typ, rec_sub) is no
\* type at all, is yielded where it lies in the source, and the body of the
\* loop does nothing with it: in pass 1 the per-site table, in pass 2 the
\* whole TestData (open rows, finished rows, wafer, pin registry) stay as they
\* are, and there is no panic.
C34_UndecodedRecordChangesNothing ==
    phase \in {"pass1", "pass2"} /\ panic = "none" /\ ~ records.ended =>
      LET item == NextItem
          whole == WholeRecords(records.iter.source, 0)
      IN
      /\ Yielded = SubSeq(whole, 1, Len(Yielded))
      /\ \A k \in Len(Yielded) + 1 .. Len(whole) :
           /\ k = Len(Yielded) + 1
           /\ RecordType_new(whole[k].header.rec_typ, whole[k].header.rec_sub)
                \notin Resolvable
           => /\ item # None
              /\ item.header = whole[k].header
              /\ item.contents = whole[k].contents
      /\ item # None /\ item.rtype \notin Resolvable =>
           /\ FullTestInformation_from_fname_body(pass1.test_info, item)
                = [panic |-> "none", test_infos |-> pass1.test_info]
           /\ phase = "pass2" =>
                TestData_from_fname_body(test_data, item) = Ok(test_data)

\* pass 2 has read a record without a decoder while a row was open, the table
\* of pass 1 holding a test
C34_Witness ==
    /\ phase = "pass2"
    /\ panic = "none"
    /\ DOMAIN pass1.test_info # {}
    /\ DOMAIN test_data.temp_rows # {}
    /\ Len(records.yielded) = 3
    /\ records.yielded[3].rtype \in {"FAR", "InvalidRecord"}

\* the records of the given type among those pass 2 has read
ReadOfType(rtype) ==
    { k \in 1 .. Len(records.yielded) : records.yielded[k].rtype = rtype }

\* C36: while pass 2 runs without a panic, and when it has returned, the part
\* starts read are as many as the open rows and the finished rows together,
\* and the part ends read are as many as the finished rows.
C36_PartsReadAreOpenOrFinished ==
    phase \in {"pass2", "done"} /\ panic = "none" =>
      /\ Cardinality(ReadOfType("PIR"))
           = Cardinality(DOMAIN test_data.temp_rows) + Len(test_data.data)
      /\ Cardinality(ReadOfType("PRR")) = Len(test_data.data)

\* two part starts and one part end were read: one row is finished and the
\* row of the other key is open
C36_Witness ==
    /\ phase = "pass2"
    /\ panic = "none"
    /\ Cardinality(ReadOfType("PIR")) = 2
    /\ Cardinality(ReadOfType("PRR")) = 1
    /\ Cardinality(DOMAIN test_data.temp_rows) = 1
    /\ Len(test_data.data) = 1

(***************************************************************************)
(* Properties of merge() over the orders of iteration.                     *)
(***************************************************************************)
\* C35: the merged table and the column layout TestData::new builds from the
\* per-site table of pass 1 are the same for any two orders in which merge()
\* may visit the entries of the table.
C35_MergeOrderDoesNotMatter ==
    phase = "merge" =>
      \A o1, o2 \in IterationOrders(pass1.test_info) :
        LET a == TestData_new(pass1.test_info, o1)
            b == TestData_new(pass1.test_info, o2)
        IN  /\ a.test_information = b.test_information
            /\ LayoutOf(a) = LayoutOf(b)

(***************************************************************************)
(* Properties of the finished rows, at every state of the record loop of   *)
(* TestData::from_fname and for every record the loop may read next.       *)
(***************************************************************************)
\* the records the loop of pass 2 dispatches
RowRecords == WIRs \cup PIRs \cup ResultRecords \cup PRRs \cup WRRs

\* a row without its multi-value vectors
WithoutMultiPin(row) == [row EXCEPT !.results_multi_pin = << >>]

\* C37: a part end that is accepted appends one row, the row of the record's
\* (head_num, site_num), after the rows finished before it; every other
\* record, and a part end that panics, leaves the finished rows as they are,
\* also a record of the key of a finished row whose key is open again; and
\* normalize_multipin_results keeps the rows in place and changes nothing of
\* a row but its multi-value vectors.
C37_FinishedRowsAreAppendOnly ==
    Running =>
      /\ \A rec \in RowRecords :
           LET out  == TestData_from_fname_step(test_data, rec)
               old  == test_data.data
               new  == out.self.data
           IN  IF rec.kind = "PRR" /\ out.panic = "none"
               THEN /\ Len(new) = Len(old) + 1
                    /\ SubSeq(new, 1, Len(old)) = old
                    /\ <<new[Len(new)].head_num, new[Len(new)].site_num>>
                         = KeyOf(rec)
                    /\ new[Len(new)].part_id = rec.part_id
               ELSE new = old
      /\ LET new == normalize_multipin_results(test_data).data IN
         /\ Len(new) = Len(test_data.data)
         /\ \A i \in 1 .. Len(new) :
              WithoutMultiPin(new[i]) = WithoutMultiPin(test_data.data[i])

\* a row of a key is finished, the key is open again, and the open row holds
\* a parametric value the finished row does not
C37_Witness ==
    /\ Running
    /\ Len(test_data.data) >= 1
    /\ LET key == <<test_data.data[1].head_num, test_data.data[1].site_num>> IN
       /\ key \in DOMAIN test_data.temp_rows
       /\ test_data.temp_rows[key].results_parametric
            # test_data.data[1].results_parametric

\* the records the loops read and no row operation is called for
OtherRecords == MIRs \cup MRRs \cup {ScenarioSDR} \cup FileTSRs

\* C38: from the same TestData, the loop body of TestData::from_fname and the
\* one of STDF::from_fname do the same with every record: both panic with the
\* same message or neither does, and they leave the same TestData (open and
\* finished rows, column layout, pin registry, wafer).  Both start from
\* TestData::new of the same table and call normalize_multipin_results after
\* the loop, so they fail on the same record of a stream or build the same
\* rows.  (What STDF::from_fname asks of the MIR, MRR and SDR after the loop is
\* no row operation.)
C38_BothDriversDoTheSame ==
    Running =>
      \A rec \in RowRecords \cup OtherRecords :
        LET a == TestData_from_fname_step(test_data, rec)
            b == STDF_from_fname_step(STDF_locals, test_data, rec)
        IN  /\ a.panic = b.panic
            /\ a.self = b.self

\* the loop is in a wafer, with a finished row, an open row and a pin
\* registry: the next record may open, write, close or panic
C38_Witness ==
    /\ Running
    /\ test_data.wir # None
    /\ Len(test_data.data) >= 1
    /\ DOMAIN test_data.temp_rows # {}
    /\ DOMAIN test_data.mpr_index_lookup # {}

(***************************************************************************)
(* Properties of normalize_multipin_results.                               *)
(***************************************************************************)
\* C39: normalize_multipin_results only appends NaN: every multi-value vector
\* of a finished row starts with the values it had and goes on with NaN
\* only; nothing else of a row and nothing else of the TestData changes; and
\* applied to its own result it changes nothing.
C39_FinalizeOnlyAppendsNaN ==
    Running =>
      LET once  == normalize_multipin_results(test_data)
          twice == normalize_multipin_results(once)
      IN
      /\ [once EXCEPT !.data = test_data.data] = test_data
      /\ Len(once.data) = Len(test_data.data)
      /\ \A r \in DOMAIN test_data.data :
           LET old == test_data.data[r]
               new == once.data[r]
           IN
           /\ WithoutMultiPin(new) = WithoutMultiPin(old)
           /\ DOMAIN new.results_multi_pin = DOMAIN old.results_multi_pin
           /\ \A i \in DOMAIN old.results_multi_pin :
                LET v == old.results_multi_pin[i]
                    w == new.results_multi_pin[i]
                IN  /\ Len(w) >= Len(v)
                    /\ SubSeq(w, 1, Len(v)) = v
                    /\ \A j \in Len(v) + 1 .. Len(w) : w[j] = NaN
      /\ twice = once

\* three rows are finished, with two, one and no value in a multi-value slot:
\* the second and the third are padded
C39_Witness ==
    /\ phase = "done"
    /\ Len(test_data.data) = 3
    /\ \E i \in DOMAIN test_data.data[1].results_multi_pin :
         /\ test_data.data[1].results_multi_pin[i] = <<"2.5", "1.5">>
         /\ test_data.data[2].results_multi_pin[i] = <<"1.5", NaN>>
         /\ test_data.data[3].results_multi_pin[i] = <<NaN, NaN>>

(***************************************************************************)
(* Properties of the keys of the tables of pass 1 and merge().             *)
(***************************************************************************)
\* C40: every entry of the per-site table has the test_num, site_num and
\* head_num of its key (test_num, site_num, head_num); so a TSR or PTR read
\* next that finds an entry under its key does not meet the key-mismatch
\* guard of TestInformation::add_from_tsr / add_from_ptr, and an entry
\* merge() folds into an existing merged entry does not meet the test_num
\* guard of MergedTestInformation::add.
C40_EntriesMatchTheirKeys ==
    /\ phase \in {"pass1", "merge"} =>
         \A key \in DOMAIN pass1.test_info :
           LET ti == pass1.test_info[key] IN
           /\ ti.test_num = key[1]
           /\ ti.site_num = key[2]
           /\ ti.head_num = key[3]
    /\ phase = "pass1" =>
         \A rec \in StreamTSRs \cup StreamPTRs :
           LET key == <<rec.test_num, rec.site_num, rec.head_num>> IN
           key \in DOMAIN pass1.test_info =>
             ~ KeyMismatch(pass1.test_info[key], rec)
    /\ phase = "merge" =>
         /\ \A t \in DOMAIN pass1.merged_test_info :
              pass1.merged_test_info[t].test_num = t
         /\ \A key \in Unvisited :
              LET ti == pass1.test_info[key] IN
              ti.test_num \in DOMAIN pass1.merged_test_info =>
                ~ TestNumMismatch(pass1.merged_test_info[ti.test_num], ti)

\* merge() has folded the entry of one site and is to fold the entry of the
\* other site of the same test, which a PTR made and a TSR completed
C40_Witness ==
    /\ phase = "merge"
    /\ panic = "none"
    /\ \E key \in Unvisited :
         /\ pass1.test_info[key].complete = "Complete"
         /\ pass1.test_info[key].test_num \in DOMAIN pass1.merged_test_info
         /\ key[2] = 2

(***************************************************************************)
(* Properties of the two passes of TestData::from_fname over a source.     *)
(***************************************************************************)
\* the table the loop of pass 1 builds from whole records, none of which
\* makes a decoder panic
RECURSIVE FullTestInformation_from_records(_)
FullTestInformation_from_records(whole) ==
    IF whole = << >>
    THEN FullTestInformation_new
    ELSE LET last == whole[Len(whole)]
             raw  == [header   |-> last.header,
                      offset   |-> 0,
                      contents |-> last.contents,
                      rtype    |-> RecordType_new(last.header.rec_typ,
                                                  last.header.rec_sub)]
         IN  FullTestInformation_from_fname_body(
                 FullTestInformation_from_records(
                     SubSeq(whole, 1, Len(whole) - 1)),
                 raw).test_infos

\* C31: no TestData exists while pass 1 reads; from the start of pass 2 on,
\* the column layout, the three partition counts and the two metadata tables
\* are the ones TestData::new builds from the table of all the records of
\* the source, and neither a record read next in pass 2 (new_part,
\* add_data_ptr/ftr/mpr, finish_part, new_wafer, close_wafer), whether its
\* operation returns or panics, nor normalize_multipin_results changes them.
C31_Pass2KeepsTheLayoutOfPass1 ==
    /\ phase = "pass1" => test_data = None
    /\ phase \in {"pass2", "done"} =>
         LET built == TestData_new(
                          FullTestInformation_from_records(
                              WholeRecords(records.iter.source, 0)),
                          pass1.order)
         IN  /\ LayoutOf(test_data) = LayoutOf(built)
             /\ TablesOf(test_data) = TablesOf(built)
    /\ phase = "pass2" /\ panic = "none" =>
         /\ \A rec \in RowRecords :
              LET out == TestData_from_fname_step(test_data, rec)
              IN  /\ LayoutOf(out.self) = LayoutOf(test_data)
                  /\ TablesOf(out.self) = TablesOf(test_data)
         /\ LayoutOf(normalize_multipin_results(test_data))
              = LayoutOf(test_data)
         /\ TablesOf(normalize_multipin_results(test_data))
              = TablesOf(test_data)

\* the run returned a row that was opened and closed in pass 2, with the
\* column laid out from the synopsis pass 1 read
C31_Witness ==
    /\ phase = "done"
    /\ Len(test_data.data) = 1
    /\ test_data.n_para + test_data.n_func = 1
    /\ Len(test_data.data[1].results_parametric)
         + Len(test_data.data[1].results_functional) = 1

====
